---- MODULE Spec2Model ----
(***************************************************************************)
(* A model of the token accounting engine (TokenService), the payment      *)
(* bridge (StripeService) and the long-form report parser                   *)
(* (parseReportResponse) of the cognitive profiler.                         *)
(*                                                                         *)
(* Storage is the database store (NeonStorage): every storage call is one  *)
(* atomic step.  A TokenService call is a sequence of such steps, one per  *)
(* awaited storage call, followed by the step in which the call returns;   *)
(* between two steps of one call the steps of other calls may land.        *)
(*                                                                         *)
(* Numbers.  A nullable integer column is <<>> (null) or <<n>>.  A         *)
(* tokensUsed argument x of a deduct* call is the integer 2x, so that the  *)
(* non-integer amounts n + 0.5 occur and Math.ceil is not the identity.    *)
(***************************************************************************)
EXTENDS Integers, Sequences, FiniteSets, TLC

VARIABLES
    users,              \* table users: id -> row
    balance0,           \* the token_balance each user row started with
    tokenUsage,         \* table token_usage, in insertion order
    anonymousSessions,  \* table anonymous_sessions: session_id -> row
    proc,               \* the TokenService call each request is in
    calls,              \* number of calls started so far
    resets,             \* users whose balance a checkRegisteredUserTokens call has overwritten
    overlap             \* per request: an addTokensToUser call of another request, for the
                        \* same user, was in progress during the request's current call

VARIABLES
    intents,            \* the payment processor's intents: id -> intent
    payments,           \* table payments: stripe_payment_intent_id -> row
    lastPay,            \* what the last StripeService call did
    payCalls            \* number of StripeService calls made so far

tokenVars == <<users, balance0, tokenUsage, anonymousSessions, proc, calls, resets, overlap>>
VARIABLES
    content,            \* the response text given to parseReportResponse
    lines,              \* content.split('\n')
    i,                  \* loop index of parseReportResponse
    currentQuestion,
    currentContent,
    report,
    parsePc             \* "loop" inside the for loop, "done" once the report is returned

VARIABLES
    documents,          \* table documents: id -> row
    analysisRequests,   \* table analysis_requests: id -> row
    comprehensiveReports,   \* table comprehensive_reports: id -> row
    lastStorageCall,    \* the last call of a per-owner storage method and its result
    lastSessionCall     \* the last anonymous-session call, as each store answered it

payVars == <<intents, payments, lastPay, payCalls>>
storeVars ==
    <<documents, analysisRequests, comprehensiveReports, lastStorageCall, lastSessionCall>>
parseVars == <<content, lines, i, currentQuestion, currentContent, report, parsePc>>

VARIABLE analysis       \* the last short-form analysis call and its outcome

vars == <<tokenVars, payVars, parseVars, storeVars, analysis>>

---------------------------------------------------------------------------
(* Bounds of the model *)

MaxCalls == 3
MaxConcCalls == 2
MaxPayCalls == 3
MaxLines == 3
MaxTextLen == 5
MaxRequests == 3

(* Requests that may be in flight at once, and the ids they use *)
Procs == {"p1", "p2"}
UserIds == {"u1", "adm", "ghost"}
SessionIds == {"s1", "s2"}

(* Arguments the calls are given *)
RequiredTokens == {0, 2, 3}
TokensUsedArgs == {1, 4}          \* 0.5 and 2
TokensToAddArgs == {3}
FreeRequests == {<<0, 0>>, <<400, 100>>, <<500, 300>>, <<501, 0>>, <<0, 301>>}
FreeTokensUsedArgs == {1, 100, 1000}   \* 0.5, 50 and 500

(* Payment intents: pi_1 and pi_2 are the ids the processor gives to the       *)
(* intents createPaymentIntent creates, in this order; pi_ext is an intent of  *)
(* the same processor account that this program did not create.                *)
NewIntentIds == <<"pi_1", "pi_2">>
IntentIds == {"pi_1", "pi_2", "pi_ext"}
(* Per-owner entities: the ids the store can give out, the users who call *)
DocumentIds == {"d1", "d2"}
RequestIds == {"a1"}
ReportIds == {"c1"}
Owners == {"u1", "adm"}
Results == {"r1"}

(* Word counts of uploads: around each point where a cost changes its regime *)
WordCounts ==
    {0, 1, 100, 101, 250, 9900, 9901, 10000, 10001, 99900, 99901, 100001,
     999900, 999901, 1000001, 2000000}

(* Texts character by character, for the functions that count characters *)
Texts == UNION {[1..n -> {"a", " "}] : n \in 0..MaxTextLen}

PaymentData == [amount : {100}, tokens : {0, 2000}, userId : {"u1", "ghost"}]

---------------------------------------------------------------------------
(* Program constants *)

FREE_TOKEN_LIMIT == 1000
FREE_INPUT_LIMIT == 500
FREE_OUTPUT_LIMIT == 300
UPLOAD_COST_PER_100_WORDS == 1
MIN_UPLOAD_COST == 100
MAX_UPLOAD_COST == 10000
MAX_FREE_UPLOAD_COST == 1000
UNLIMITED_BALANCE == 999999999

adminUsernames == {"jmkuczynski", "jmkuczynski@yahoo.com"}

(* String.prototype.toLowerCase on the e-mail addresses and the words of the   *)
(* model: these are the only ones with an upper-case letter                    *)
toLowerCase(s) ==
    CASE s = "JMKuczynski@Yahoo.com" -> "jmkuczynski@yahoo.com"
      [] s = "JMKuczynski" -> "jmkuczynski"
      [] s = "Question" -> "question"
      [] s = "Original" -> "original"
      [] s = "Archetype" -> "archetype"
      [] OTHER -> s

---------------------------------------------------------------------------
(* Values *)

NULL == <<>>

(* x || 0 on a nullable integer *)
OrZero(x) == IF x = NULL \/ x = <<0>> THEN 0 ELSE x[1]

(* ToNumber(x) as the relational operators use it: null is 0 *)
ToNumber(x) == IF x = NULL THEN 0 ELSE x[1]

MathFloor(h) == h \div 2

MathMax(a, b) == IF a >= b THEN a ELSE b
MathMin(a, b) == IF a <= b THEN a ELSE b

FloorDiv(n, d) == n \div d

(* Math.ceil(n / d) for integers n >= 0, d > 0 *)
CeilDiv(n, d) == (n + d - 1) \div d

(* Math.ceil of the amount h/2 *)
MathCeil(h) == (h + 1) \div 2

NoUser == [exists |-> FALSE, email |-> "", token_balance |-> NULL]
NoSession == [exists |-> FALSE, tokens_used |-> NULL]
NoResult == [canProceed |-> FALSE, value |-> 0, message |-> "", error |-> ""]

(* An AuthenticatedRequest: its express session and the two fields the         *)
(* middleware sets; "" is undefined                                            *)
NoReqUser == [exists |-> FALSE, id |-> "", email |-> "", token_balance |-> 0]
NoReqSession == [present |-> FALSE, userId |-> "", sessionId |-> ""]
NoReq == [session |-> NoReqSession, user |-> NoReqUser, sessionId |-> ""]

---------------------------------------------------------------------------
(* Storage (NeonStorage) *)

getUser_Any(id) == users["u1"]

(* SELECT ... WHERE id = $1: the row, or undefined *)
getUser(id) == IF users[id].exists THEN users[id] ELSE NoUser

updateUserTokenBalance(userId, newBalance) ==
    [users EXCEPT ![userId].token_balance =
        IF users[userId].exists THEN <<newBalance>> ELSE @]

createTokenUsage(usage) == Append(tokenUsage, usage)

getUserTokenUsage(userId) == SelectSeq(tokenUsage, LAMBDA r : r.user_id = userId)

getAnonymousSession(sessionId) ==
    IF anonymousSessions[sessionId].exists THEN anonymousSessions[sessionId] ELSE NoSession

TokenUsageRow(userId, sessionId, eventType, used, remaining) ==
    [user_id |-> userId, session_id |-> sessionId, event_type |-> eventType,
     tokens_used |-> used, tokens_remaining |-> remaining]

---------------------------------------------------------------------------
(* TokenService *)

isAdmin_CaseSensitive(user) == user.email \in adminUsernames

isAdmin(user) ==
    \E admin \in adminUsernames : toLowerCase(admin) = toLowerCase(user.email)

Idle(p) == proc[p].pc \in {"idle", "done"}

(* A call as it is made; rows is the length of the ledger at that time *)
NewCall(op, id, a, b) ==
    [op |-> op, pc |-> "read", id |-> id, a |-> a, b |-> b,
     user |-> NoUser, session |-> NoSession, res |-> NoResult,
     rows |-> Len(tokenUsage), req |-> NoReq]

Return(p, res) == [proc EXCEPT ![p].pc = "done", ![p].res = res]

(* checkRegisteredUserTokens: the call is made and storage.getUser lands *)
CallCheckRegisteredUserTokens(p) ==
    \E userId \in UserIds, requiredTokens \in RequiredTokens :
        /\ Idle(p) /\ calls < MaxCalls
        /\ calls' = calls + 1
        /\ proc' = [proc EXCEPT ![p] =
              [NewCall("checkRegisteredUserTokens", userId, requiredTokens, 0)
                  EXCEPT !.user = getUser(userId)]]
        /\ UNCHANGED <<users, balance0, tokenUsage, anonymousSessions, resets>>

CheckRegisteredResult_Lte(user, requiredTokens) ==
    LET currentBalance == OrZero(user.token_balance) IN
    IF currentBalance <= requiredTokens
    THEN [NoResult EXCEPT !.value = currentBalance, !.message = "Buy More Credits"]
    ELSE [NoResult EXCEPT !.canProceed = TRUE, !.value = currentBalance]

CheckRegisteredResult_Always(user, requiredTokens) ==
    [NoResult EXCEPT !.canProceed = TRUE, !.value = OrZero(user.token_balance)]

CheckRegisteredResult(user, requiredTokens) ==
    LET currentBalance == OrZero(user.token_balance) IN
    IF currentBalance < requiredTokens
    THEN [NoResult EXCEPT !.value = currentBalance, !.message = "Buy More Credits"]
    ELSE [NoResult EXCEPT !.canProceed = TRUE, !.value = currentBalance]

AdminNeedsReset_NotNull(user) ==
    user.token_balance # NULL /\ user.token_balance[1] < UNLIMITED_BALANCE

AdminNeedsReset(user) == ToNumber(user.token_balance) < UNLIMITED_BALANCE

checkRegisteredUserTokens(p) ==
    /\ proc[p].op = "checkRegisteredUserTokens"
    /\ LET user == proc[p].user IN
       \/ /\ proc[p].pc = "read" /\ ~user.exists
          /\ proc' = Return(p, [NoResult EXCEPT !.message = "User not found"])
          /\ UNCHANGED <<users, resets>>
       \/ /\ proc[p].pc = "read" /\ user.exists /\ isAdmin(user) /\ AdminNeedsReset(user)
          /\ users' = updateUserTokenBalance(proc[p].id, UNLIMITED_BALANCE)
          /\ resets' = resets \cup {proc[p].id}
          /\ proc' = [proc EXCEPT ![p].pc = "updated"]
       \/ /\ \/ proc[p].pc = "updated"
             \/ proc[p].pc = "read" /\ user.exists /\ isAdmin(user) /\ ~AdminNeedsReset(user)
          /\ proc' = Return(p, [NoResult EXCEPT !.canProceed = TRUE,
                                                !.value = UNLIMITED_BALANCE])
          /\ UNCHANGED <<users, resets>>
       \/ /\ proc[p].pc = "read" /\ user.exists /\ ~isAdmin(user)
          /\ proc' = Return(p, CheckRegisteredResult(user, proc[p].a))
          /\ UNCHANGED <<users, resets>>
    /\ UNCHANGED <<balance0, tokenUsage, anonymousSessions, calls>>

(* deductRegisteredUserTokens *)
CallDeductRegisteredUserTokens(p) ==
    \E userId \in UserIds, tokensUsed \in TokensUsedArgs :
        /\ Idle(p) /\ calls < MaxCalls
        /\ calls' = calls + 1
        /\ proc' = [proc EXCEPT ![p] =
              [NewCall("deductRegisteredUserTokens", userId, tokensUsed, 0)
                  EXCEPT !.user = getUser(userId)]]
        /\ UNCHANGED <<users, balance0, tokenUsage, anonymousSessions, resets>>

DeductedBalance_NoDebit(user, tokensUsed) == OrZero(user.token_balance)

DeductedBalance(user, tokensUsed) == OrZero(user.token_balance) - MathCeil(tokensUsed)

deductRegisteredUserTokens(p) ==
    /\ proc[p].op = "deductRegisteredUserTokens"
    /\ LET user == proc[p].user
           tokensUsedInt == MathCeil(proc[p].a)
           newBalance == DeductedBalance(user, proc[p].a) IN
       \/ /\ proc[p].pc = "read" /\ ~user.exists
          /\ proc' = Return(p, [NoResult EXCEPT !.error = "User not found"])
          /\ UNCHANGED <<users, tokenUsage>>
       \/ /\ proc[p].pc = "read" /\ user.exists /\ isAdmin(user)
          /\ tokenUsage' = createTokenUsage(
                TokenUsageRow(proc[p].id, "", "analysis", tokensUsedInt, UNLIMITED_BALANCE))
          /\ proc' = [proc EXCEPT ![p].pc = "logged"]
          /\ UNCHANGED users
       \/ /\ proc[p].pc = "read" /\ user.exists /\ ~isAdmin(user)
          /\ users' = updateUserTokenBalance(proc[p].id, newBalance)
          /\ proc' = [proc EXCEPT ![p].pc = "updated"]
          /\ UNCHANGED tokenUsage
       \/ /\ proc[p].pc = "updated"
          /\ tokenUsage' = createTokenUsage(
                TokenUsageRow(proc[p].id, "", "analysis", tokensUsedInt, newBalance))
          /\ proc' = [proc EXCEPT ![p].pc = "logged"]
          /\ UNCHANGED users
       \/ /\ proc[p].pc = "logged"
          /\ proc' = Return(p, [NoResult EXCEPT !.canProceed = TRUE])
          /\ UNCHANGED <<users, tokenUsage>>
    /\ UNCHANGED <<balance0, anonymousSessions, calls, resets>>

(* A request of user u1 that needs n tokens: checkRegisteredTokenLimits calls  *)
(* checkRegisteredUserTokens(u1, n); when that allowed it, the analysis is     *)
(* charged with deductRegisteredUserTokens(u1, n).  tokensUsed is in halves.   *)
Allowed(p) ==
    /\ proc[p].op = "checkRegisteredUserTokens" /\ proc[p].pc = "done"
    /\ proc[p].res.canProceed

RequestCheck(p) ==
    \E requiredTokens \in RequiredTokens :
        /\ Idle(p) /\ ~Allowed(p)
        /\ calls < MaxRequests
        /\ calls' = calls + 1
        /\ proc' = [proc EXCEPT ![p] =
              [NewCall("checkRegisteredUserTokens", "u1", requiredTokens, 0)
                  EXCEPT !.user = getUser("u1")]]
        /\ UNCHANGED <<users, balance0, tokenUsage, anonymousSessions, resets>>

RequestDeduct(p) ==
    /\ Allowed(p)
    /\ proc' = [proc EXCEPT ![p] =
          [NewCall("deductRegisteredUserTokens", "u1", 2 * proc[p].a, 0)
              EXCEPT !.user = getUser("u1")]]
    /\ UNCHANGED <<users, balance0, tokenUsage, anonymousSessions, calls, resets>>

(* addTokensToUser *)
CallAddTokensToUser(p) ==
    \E userId \in UserIds, tokensToAdd \in TokensToAddArgs :
        /\ Idle(p) /\ calls < MaxCalls
        /\ calls' = calls + 1
        /\ proc' = [proc EXCEPT ![p] =
              [NewCall("addTokensToUser", userId, tokensToAdd, 0)
                  EXCEPT !.user = getUser(userId)]]
        /\ UNCHANGED <<users, balance0, tokenUsage, anonymousSessions, resets>>

CreditedBalance_Overwrite(user, tokensToAdd) == tokensToAdd

(* newBalance of addTokensToUser *)
CreditedBalance(user, tokensToAdd) == OrZero(user.token_balance) + tokensToAdd

PurchaseRow_Unsigned(userId, tokensToAdd, newBalance) ==
    TokenUsageRow(userId, "", "purchase", tokensToAdd, newBalance)

PurchaseRow(userId, tokensToAdd, newBalance) ==
    TokenUsageRow(userId, "", "purchase", -tokensToAdd, newBalance)

addTokensToUser(p) ==
    /\ proc[p].op = "addTokensToUser"
    /\ LET user == proc[p].user
           newBalance == CreditedBalance(user, proc[p].a) IN
       \/ /\ proc[p].pc = "read" /\ ~user.exists
          /\ proc' = Return(p, [NoResult EXCEPT !.error = "User not found"])
          /\ UNCHANGED <<users, tokenUsage>>
       \/ /\ proc[p].pc = "read" /\ user.exists
          /\ users' = updateUserTokenBalance(proc[p].id, newBalance)
          /\ proc' = [proc EXCEPT ![p].pc = "updated"]
          /\ UNCHANGED tokenUsage
       \/ /\ proc[p].pc = "updated"
          /\ tokenUsage' = createTokenUsage(PurchaseRow(proc[p].id, proc[p].a, newBalance))
          /\ proc' = [proc EXCEPT ![p].pc = "logged"]
          /\ UNCHANGED users
       \/ /\ proc[p].pc = "logged"
          /\ proc' = Return(p, [NoResult EXCEPT !.canProceed = TRUE])
          /\ UNCHANGED <<users, tokenUsage>>
    /\ UNCHANGED <<balance0, anonymousSessions, calls, resets>>


---------------------------------------------------------------------------
(* TokenService, anonymous sessions *)

createAnonymousSession(sessionId, tokensUsed) ==
    [anonymousSessions EXCEPT ![sessionId] = [exists |-> TRUE, tokens_used |-> <<tokensUsed>>]]

updateAnonymousSessionTokens(sessionId, tokensUsed) ==
    [anonymousSessions EXCEPT ![sessionId].tokens_used =
        IF anonymousSessions[sessionId].exists THEN <<tokensUsed>> ELSE @]

(* session?.tokens_used || 0 *)
CurrentUsage(session) == IF session.exists THEN OrZero(session.tokens_used) ELSE 0

FreeLimitsResult_Gte(session, inputTokens, outputTokens) ==
    LET currentUsage == CurrentUsage(session)
        totalTokens == inputTokens + outputTokens IN
    IF inputTokens > FREE_INPUT_LIMIT \/ outputTokens > FREE_OUTPUT_LIMIT
       \/ currentUsage + totalTokens >= FREE_TOKEN_LIMIT
    THEN [NoResult EXCEPT !.value = currentUsage, !.message = "Full results available with upgrade"]
    ELSE [NoResult EXCEPT !.canProceed = TRUE, !.value = currentUsage]

FreeLimitsResult_PerRequest(session, inputTokens, outputTokens) ==
    LET currentUsage == CurrentUsage(session) IN
    IF inputTokens > FREE_INPUT_LIMIT \/ outputTokens > FREE_OUTPUT_LIMIT
    THEN [NoResult EXCEPT !.value = currentUsage, !.message = "Full results available with upgrade"]
    ELSE [NoResult EXCEPT !.canProceed = TRUE, !.value = currentUsage]

(* checkFreeUserLimits: the decision, from the session row that was read *)
FreeLimitsResult(session, inputTokens, outputTokens) ==
    LET currentUsage == CurrentUsage(session)
        totalTokens == inputTokens + outputTokens IN
    IF inputTokens > FREE_INPUT_LIMIT
    THEN [NoResult EXCEPT !.value = currentUsage, !.message = "Full results available with upgrade"]
    ELSE IF outputTokens > FREE_OUTPUT_LIMIT
    THEN [NoResult EXCEPT !.value = currentUsage, !.message = "Full results available with upgrade"]
    ELSE IF currentUsage + totalTokens > FREE_TOKEN_LIMIT
    THEN [NoResult EXCEPT !.value = currentUsage, !.message = "You've reached the free usage limit"]
    ELSE [NoResult EXCEPT !.canProceed = TRUE, !.value = currentUsage]

CallCheckFreeUserLimits(p) ==
    \E sessionId \in SessionIds, req \in FreeRequests :
        /\ Idle(p) /\ calls < MaxCalls
        /\ calls' = calls + 1
        /\ proc' = [proc EXCEPT ![p] =
              [NewCall("checkFreeUserLimits", sessionId, req[1], req[2])
                  EXCEPT !.session = getAnonymousSession(sessionId)]]
        /\ UNCHANGED <<users, balance0, tokenUsage, anonymousSessions, resets>>

checkFreeUserLimits(p) ==
    /\ proc[p].op = "checkFreeUserLimits" /\ proc[p].pc = "read"
    /\ proc' = Return(p, FreeLimitsResult(proc[p].session, proc[p].a, proc[p].b))
    /\ UNCHANGED <<users, balance0, tokenUsage, anonymousSessions, calls, resets>>

(* deductFreeUserTokens *)
CallDeductFreeUserTokens(p) ==
    \E sessionId \in SessionIds, tokensUsed \in FreeTokensUsedArgs :
        /\ Idle(p) /\ calls < MaxCalls
        /\ calls' = calls + 1
        /\ proc' = [proc EXCEPT ![p] =
              [NewCall("deductFreeUserTokens", sessionId, tokensUsed, 0)
                  EXCEPT !.session = getAnonymousSession(sessionId)]]
        /\ UNCHANGED <<users, balance0, tokenUsage, anonymousSessions, resets>>

deductFreeUserTokens(p) ==
    /\ proc[p].op = "deductFreeUserTokens"
    /\ LET session == proc[p].session
           tokensUsedInt == MathCeil(proc[p].a)
           newTotal == CurrentUsage(session) + tokensUsedInt IN
       \/ /\ proc[p].pc = "read"
          /\ IF ~session.exists
             THEN IF anonymousSessions[proc[p].id].exists
                  THEN \* INSERT on the unique session_id fails
                       /\ proc' = Return(p, [NoResult EXCEPT !.error = "duplicate key"])
                       /\ UNCHANGED anonymousSessions
                  ELSE /\ anonymousSessions' = createAnonymousSession(proc[p].id, tokensUsedInt)
                       /\ proc' = [proc EXCEPT ![p].pc = "updated"]
             ELSE /\ anonymousSessions' = updateAnonymousSessionTokens(proc[p].id, newTotal)
                  /\ proc' = [proc EXCEPT ![p].pc = "updated"]
          /\ UNCHANGED tokenUsage
       \/ /\ proc[p].pc = "updated"
          /\ tokenUsage' = createTokenUsage(
                TokenUsageRow("", proc[p].id, "analysis", tokensUsedInt,
                              FREE_TOKEN_LIMIT - CurrentUsage(session) - tokensUsedInt))
          /\ proc' = [proc EXCEPT ![p].pc = "logged"]
          /\ UNCHANGED anonymousSessions
       \/ /\ proc[p].pc = "logged"
          /\ proc' = Return(p, [NoResult EXCEPT !.canProceed = TRUE])
          /\ UNCHANGED <<anonymousSessions, tokenUsage>>
    /\ UNCHANGED <<users, balance0, calls, resets>>

(* canUserUploadFiles, as checkFileUploadPermissions calls it with req.user?.id *)
(* and req.sessionId: the decision for an anonymous caller whose row was read  *)
CanUploadAnonymous_Gt(session) ==
    IF ~session.exists THEN [NoResult EXCEPT !.canProceed = TRUE]
    ELSE IF ToNumber(session.tokens_used) > FREE_TOKEN_LIMIT
    THEN [NoResult EXCEPT !.message = "You've reached the free usage limit"]
    ELSE [NoResult EXCEPT !.canProceed = TRUE]

CanUploadAnonymous(session) ==
    IF ~session.exists THEN [NoResult EXCEPT !.canProceed = TRUE]
    ELSE IF ToNumber(session.tokens_used) >= FREE_TOKEN_LIMIT
    THEN [NoResult EXCEPT !.message = "You've reached the free usage limit"]
    ELSE [NoResult EXCEPT !.canProceed = TRUE]

CallCanUserUploadFiles(p) ==
    \E userId \in {"", "u1", "ghost"}, sessionId \in {""} \cup SessionIds :
        /\ Idle(p) /\ calls < MaxCalls
        /\ calls' = calls + 1
        /\ proc' = [proc EXCEPT ![p] =
              [NewCall("canUserUploadFiles", userId, 0, 0)
                  EXCEPT !.req = [NoReq EXCEPT !.sessionId = sessionId],
                         !.session = IF userId = "" /\ sessionId # ""
                                     THEN getAnonymousSession(sessionId)
                                     ELSE NoSession]]
        /\ UNCHANGED <<users, balance0, tokenUsage, anonymousSessions, resets>>

canUserUploadFiles(p) ==
    /\ proc[p].op = "canUserUploadFiles" /\ proc[p].pc = "read"
    /\ proc' = Return(p,
          IF proc[p].id # "" THEN [NoResult EXCEPT !.canProceed = TRUE]
          ELSE IF proc[p].req.sessionId # "" THEN CanUploadAnonymous(proc[p].session)
          ELSE [NoResult EXCEPT !.message = "No valid session"])
    /\ UNCHANGED <<users, balance0, tokenUsage, anonymousSessions, calls, resets>>

(* estimateTokens: Math.ceil(text.length / 3) *)
EstimatedTokens_NonSpace(text) == CeilDiv(Len(SelectSeq(text, LAMBDA c : c # " ")), 3)

EstimatedTokens(text) == CeilDiv(Len(text), 3)

(* The upload cost functions: synchronous, the call returns in the same step *)
UploadCost(wordCount) ==
    LET cost == CeilDiv(wordCount, 100) * UPLOAD_COST_PER_100_WORDS IN
    MathMax(cost, MIN_UPLOAD_COST)

FreeUploadCost(wordCount) ==
    LET cost == CeilDiv(wordCount, 100) * UPLOAD_COST_PER_100_WORDS IN
    MathMin(MathMax(cost, MIN_UPLOAD_COST), MAX_FREE_UPLOAD_COST)

RegisteredUploadCost(wordCount) ==
    LET cost == CeilDiv(wordCount, 100) * UPLOAD_COST_PER_100_WORDS IN
    MathMin(MathMax(cost, MIN_UPLOAD_COST), MAX_UPLOAD_COST)

Computed(p, op, arg, value) ==
    /\ Idle(p)
    /\ proc' = [proc EXCEPT ![p] =
          [NewCall(op, "", arg, 0) EXCEPT !.pc = "done", !.res.value = value]]
    /\ UNCHANGED <<users, balance0, tokenUsage, anonymousSessions, calls, resets>>

calculateUploadCost(p) ==
    \E wordCount \in WordCounts :
        Computed(p, "calculateUploadCost", wordCount, UploadCost(wordCount))

calculateFreeUploadCost(p) ==
    \E wordCount \in WordCounts :
        Computed(p, "calculateFreeUploadCost", wordCount, FreeUploadCost(wordCount))

calculateRegisteredUploadCost(p) ==
    \E wordCount \in WordCounts :
        Computed(p, "calculateRegisteredUploadCost", wordCount,
                 RegisteredUploadCost(wordCount))

estimateTokens(p) ==
    \E text \in Texts : Computed(p, "estimateTokens", text, EstimatedTokens(text))

---------------------------------------------------------------------------
(* authMiddleware *)

(* The express sessions a request can arrive with: none, an empty one, one     *)
(* with a user reference (to a user or to none), one with a session id         *)
ReqSessions ==
    {NoReqSession}
        \cup [present : {TRUE}, userId : {"", "u1", "ghost"}, sessionId : {"", "s1", "s2"}]

ReqUser_Unset(id, user) == NoReqUser

(* req.user = { id, email, token_balance: user.token_balance || 0 } *)
ReqUser(id, user) ==
    [exists |-> TRUE, id |-> id, email |-> user.email,
     token_balance |-> OrZero(user.token_balance)]

(* generateSessionId(): some string *)
generateSessionId == SessionIds

(* The request arrives; storage.getUser lands if the session has a userId *)
CallAuthMiddleware(p) ==
    \E session \in ReqSessions :
        /\ Idle(p) /\ calls < MaxCalls
        /\ calls' = calls + 1
        /\ proc' = [proc EXCEPT ![p] =
              [NewCall("authMiddleware", session.userId, 0, 0)
                  EXCEPT !.req = [NoReq EXCEPT !.session = session],
                         !.user = IF session.userId # "" THEN getUser(session.userId)
                                  ELSE NoUser]]
        /\ UNCHANGED <<users, balance0, tokenUsage, anonymousSessions, resets>>

authMiddleware(p) ==
    /\ proc[p].op = "authMiddleware"
    /\ LET req == proc[p].req IN
       \/ /\ proc[p].pc = "read"
          /\ LET user == IF proc[p].user.exists THEN ReqUser(proc[p].id, proc[p].user)
                         ELSE NoReqUser IN
             IF user.exists
             THEN proc' = [proc EXCEPT ![p].req.user = user, ![p].pc = "next"]
             ELSE \E generated \in generateSessionId :
                    LET sessionId == IF req.session.sessionId # ""
                                     THEN req.session.sessionId ELSE generated IN
                    \* storage.getAnonymousSession(sessionId) lands
                    proc' = [proc EXCEPT
                        ![p].req.session.sessionId =
                            IF req.session.present THEN sessionId ELSE @,
                        ![p].req.sessionId = sessionId,
                        ![p].session = getAnonymousSession(sessionId),
                        ![p].pc = "session"]
          /\ UNCHANGED anonymousSessions
       \/ /\ proc[p].pc = "session"
          /\ IF proc[p].session.exists
             THEN /\ proc' = [proc EXCEPT ![p].pc = "next"]
                  /\ UNCHANGED anonymousSessions
             ELSE IF anonymousSessions[req.sessionId].exists
                  THEN \* INSERT on the unique session_id fails: next(error)
                       /\ proc' = Return(p, [NoResult EXCEPT !.error = "duplicate key"])
                       /\ UNCHANGED anonymousSessions
                  ELSE /\ anonymousSessions' = createAnonymousSession(req.sessionId, 0)
                       /\ proc' = [proc EXCEPT ![p].pc = "next"]
       \/ /\ proc[p].pc = "next"
          /\ proc' = Return(p, [NoResult EXCEPT !.canProceed = TRUE])
          /\ UNCHANGED anonymousSessions
    /\ UNCHANGED <<users, balance0, tokenUsage, calls, resets>>

(* A request of an anonymous session: checkFreeUserLimits(s, in, out), and     *)
(* when that allowed it, deductFreeUserTokens(s, in + out), in halves          *)
FreeAllowed(p) ==
    /\ proc[p].op = "checkFreeUserLimits" /\ proc[p].pc = "done"
    /\ proc[p].res.canProceed

FreeRequestCheck(p) ==
    \E sessionId \in SessionIds, req \in FreeRequests \cup {<<30, 20>>} :
        /\ Idle(p) /\ ~FreeAllowed(p)
        /\ calls < MaxRequests
        /\ calls' = calls + 1
        /\ proc' = [proc EXCEPT ![p] =
              [NewCall("checkFreeUserLimits", sessionId, req[1], req[2])
                  EXCEPT !.session = getAnonymousSession(sessionId)]]
        /\ UNCHANGED <<users, balance0, tokenUsage, anonymousSessions, resets>>

FreeRequestDeduct(p) ==
    /\ FreeAllowed(p)
    /\ proc' = [proc EXCEPT ![p] =
          [NewCall("deductFreeUserTokens", proc[p].id, 2 * (proc[p].a + proc[p].b), 0)
              EXCEPT !.session = getAnonymousSession(proc[p].id)]]
    /\ UNCHANGED <<users, balance0, tokenUsage, anonymousSessions, calls, resets>>

---------------------------------------------------------------------------
(* StripeService *)

(* Text is a sequence of tokens: a digit, a punctuation mark, a space, a line   *)
(* feed or a whole word.  "" is <<>>.                                          *)
DigitChars == <<"0", "1", "2", "3", "4", "5", "6", "7", "8", "9">>

IsDigit(t) == \E d \in DOMAIN DigitChars : DigitChars[d] = t

DigitValue(t) == (CHOOSE d \in DOMAIN DigitChars : DigitChars[d] = t) - 1

(* Number.prototype.toString on the non-negative integers *)
RECURSIVE NumberToString(_)
NumberToString(n) ==
    IF n < 10 THEN <<DigitChars[n + 1]>>
    ELSE Append(NumberToString(n \div 10), DigitChars[(n % 10) + 1])

(* parseInt on a string of decimal digits; NaN is NULL *)
RECURSIVE parseInt(_)
parseInt(str) ==
    IF str = <<>> THEN NULL
    ELSE IF Len(str) = 1 THEN <<DigitValue(str[1])>>
    ELSE <<10 * parseInt(SubSeq(str, 1, Len(str) - 1))[1] + DigitValue(str[Len(str)])>>

NoIntent == [exists |-> FALSE, status |-> "", userId |-> "", tokens |-> <<>>]
NoPayment == [exists |-> FALSE, user_id |-> "", amount_cents |-> 0,
              tokens_purchased |-> 0, status |-> ""]
NoPay == [seq |-> 0, op |-> "", id |-> "", retrieved |-> FALSE, reported |-> "",
          raised |-> FALSE, propagated |-> FALSE, credits |-> 0, creditedTo |-> "",
          creditedTokens |-> 0, marked |-> ""]

(* INSERT INTO payments: user_id references users.id *)
createPayment(payment) ==
    [payments EXCEPT ![payment.stripe_payment_intent_id] =
        [exists |-> TRUE, user_id |-> payment.user_id, amount_cents |-> payment.amount_cents,
         tokens_purchased |-> payment.tokens_purchased, status |-> payment.status]]

updatePaymentStatus(paymentIntentId, status) ==
    [payments EXCEPT ![paymentIntentId].status =
        IF payments[paymentIntentId].exists THEN status ELSE @]

MetadataTokens_Amount(data) == NumberToString(data.amount)

(* metadata.tokens of the intent: data.tokens.toString() *)
MetadataTokens(data) == NumberToString(data.tokens)

NextIntentId ==
    LET free == {k \in DOMAIN NewIntentIds : ~intents[NewIntentIds[k]].exists}
    IN  NewIntentIds[CHOOSE k \in free : \A l \in free : k <= l]

(* createPaymentIntent(data).  fail names the awaited call that raises.        *)
createPaymentIntent(data, fail) ==
    /\ payCalls < MaxPayCalls
    /\ \E k \in DOMAIN NewIntentIds : ~intents[NewIntentIds[k]].exists
    /\ LET id == NextIntentId
           created == fail # "paymentIntents.create"
           stored == created /\ fail # "createPayment" /\ users[data.userId].exists
       IN  /\ intents' =
                IF created
                THEN [intents EXCEPT ![id] =
                        [exists |-> TRUE, status |-> "requires_payment_method",
                         userId |-> data.userId, tokens |-> MetadataTokens(data)]]
                ELSE intents
           /\ payments' =
                IF stored
                THEN createPayment([user_id |-> data.userId, stripe_payment_intent_id |-> id,
                                    amount_cents |-> data.amount,
                                    tokens_purchased |-> data.tokens, status |-> "pending"])
                ELSE payments
           /\ lastPay' = [NoPay EXCEPT !.seq = payCalls + 1, !.op = "createPaymentIntent",
                             !.id = IF created THEN id ELSE "",
                             !.raised = ~stored, !.propagated = ~stored]
    /\ payCalls' = payCalls + 1
    /\ UNCHANGED <<users, tokenUsage>>

(* The customer pays: the processor moves the intent to succeeded *)
PaymentSucceeds(id) ==
    /\ intents[id].exists /\ intents[id].status = "requires_payment_method"
    /\ intents' = [intents EXCEPT ![id].status = "succeeded"]
    /\ UNCHANGED <<users, tokenUsage, payments, lastPay, payCalls>>

ShouldCredit_AnyStatus(paymentIntent) ==
    LET tokens == parseInt(IF paymentIntent.tokens = <<>> THEN <<"0">> ELSE paymentIntent.tokens)
    IN  paymentIntent.userId # "" /\ tokens # NULL /\ tokens[1] > 0

(* The two conditions of handleSuccessfulPayment under which it credits *)
ShouldCredit(paymentIntent) ==
    LET userId == paymentIntent.userId
        tokens == parseInt(IF paymentIntent.tokens = <<>> THEN <<"0">> ELSE paymentIntent.tokens)
    IN  /\ paymentIntent.status = "succeeded"
        /\ userId # ""
        /\ tokens # NULL /\ tokens[1] > 0

(* handleSuccessfulPayment(paymentIntentId).  fail names the awaited call in   *)
(* the try block that raises, catchFails says whether the status update in the *)
(* catch block raises too.                                                     *)
handleSuccessfulPayment(paymentIntentId, fail, catchFails) ==
    /\ payCalls < MaxPayCalls
    /\ LET paymentIntent == intents[paymentIntentId]
           retrieved == paymentIntent.exists /\ fail # "paymentIntents.retrieve"
           credit == retrieved /\ ShouldCredit(paymentIntent)
           userId == paymentIntent.userId
           tokens == parseInt(paymentIntent.tokens)[1]
           user == getUser(userId)
           balanceWritten == /\ credit /\ fail # "getUser" /\ user.exists
                             /\ fail # "updateUserTokenBalance"
           rowWritten == balanceWritten /\ fail # "createTokenUsage"
           statusWritten == rowWritten /\ fail # "updatePaymentStatus"
           raised == ~retrieved \/ (credit /\ ~statusWritten)
           newBalance == CreditedBalance(user, tokens)
       IN  /\ users' = IF balanceWritten THEN updateUserTokenBalance(userId, newBalance)
                       ELSE users
           /\ tokenUsage' = IF rowWritten
                            THEN createTokenUsage(PurchaseRow(userId, tokens, newBalance))
                            ELSE tokenUsage
           /\ payments' =
                IF statusWritten THEN updatePaymentStatus(paymentIntentId, "succeeded")
                ELSE IF raised /\ ~catchFails THEN updatePaymentStatus(paymentIntentId, "failed")
                ELSE payments
           /\ lastPay' = [NoPay EXCEPT
                 !.seq = payCalls + 1, !.op = "handleSuccessfulPayment",
                 !.id = paymentIntentId, !.retrieved = retrieved,
                 !.reported = IF retrieved THEN paymentIntent.status ELSE "",
                 !.raised = raised, !.propagated = raised /\ catchFails,
                 !.credits = IF balanceWritten THEN 1 ELSE 0,
                 !.creditedTo = IF balanceWritten THEN userId ELSE "",
                 !.creditedTokens = IF balanceWritten THEN tokens ELSE 0,
                 !.marked = IF statusWritten THEN "succeeded"
                            ELSE IF raised /\ ~catchFails THEN "failed" ELSE ""]
    /\ payCalls' = payCalls + 1
    /\ UNCHANGED intents

(* handleFailedPayment(paymentIntentId) *)
handleFailedPayment(paymentIntentId, fails) ==
    /\ payCalls < MaxPayCalls
    /\ payments' = IF fails THEN payments ELSE updatePaymentStatus(paymentIntentId, "failed")
    /\ lastPay' = [NoPay EXCEPT !.seq = payCalls + 1, !.op = "handleFailedPayment",
                      !.id = paymentIntentId, !.raised = fails, !.propagated = fails,
                      !.marked = IF fails THEN "" ELSE "failed"]
    /\ payCalls' = payCalls + 1
    /\ UNCHANGED <<users, tokenUsage, intents>>

---------------------------------------------------------------------------
(* parseReportResponse, the long-form report parser *)

(* \s *)
IsSpace(t) == t \in {" ", "\n"}

RECURSIVE TrimStart(_)
TrimStart(str) ==
    IF str # <<>> /\ IsSpace(Head(str)) THEN TrimStart(Tail(str)) ELSE str

RECURSIVE TrimEnd(_)
TrimEnd(str) ==
    IF str # <<>> /\ IsSpace(str[Len(str)])
    THEN TrimEnd(SubSeq(str, 1, Len(str) - 1))
    ELSE str

(* String.prototype.trim *)
trim(str) == TrimEnd(TrimStart(str))

(* String.prototype.split('\n') *)
RECURSIVE split(_)
split(str) ==
    LET feeds == {k \in 1..Len(str) : str[k] = "\n"}
    IN  IF feeds = {} THEN <<str>>
        ELSE LET k == CHOOSE f \in feeds : \A g \in feeds : f <= g
             IN  <<SubSeq(str, 1, k - 1)>> \o split(SubSeq(str, k + 1, Len(str)))

(* The first position from p on that holds no space; Len(line) + 1 if none *)
SkipSpaces(line, p) ==
    LET stops == {q \in p..Len(line) : ~IsSpace(line[q])} \cup {Len(line) + 1}
    IN  CHOOSE q \in stops : \A r \in stops : q <= r

(* The first position from p on that holds no digit; Len(line) + 1 if none *)
SkipDigits(line, p) ==
    LET stops == {q \in p..Len(line) : ~IsDigit(line[q])} \cup {Len(line) + 1}
    IN  CHOOSE q \in stops : \A r \in stops : q <= r

(* line.match of the question number pattern, case-insensitive: an optional   *)
(* "Question" and spaces, digits (number, group 1), "." or ":", spaces, and    *)
(* the rest of the line (rest, group 2)                                        *)
questionMatch(line) ==
    LET first == IF line # <<>> /\ toLowerCase(line[1]) = "question"
                 THEN SkipSpaces(line, 2) ELSE 1
        mark == SkipDigits(line, first)
        matched == mark > first /\ mark <= Len(line) /\ line[mark] \in {".", ":"}
    IN  [matched |-> matched,
         number |-> IF matched THEN SubSeq(line, first, mark - 1) ELSE <<>>,
         rest |-> IF matched THEN SubSeq(line, SkipSpaces(line, mark + 1), Len(line))
                  ELSE <<>>]

(* The heading patterns of sections 1..10.  An alternative of a pattern is a   *)
(* run of words with \s* between them; of every pattern only the first         *)
(* alternative is anchored with ^.                                             *)
Anchored(words) == [anchored |-> TRUE, words |-> words]
Anywhere(words) == [anchored |-> FALSE, words |-> words]

HeadingPattern(k) ==
    CASE k = 1 -> {Anchored(<<"intelligence", "level">>), Anywhere(<<"author's", "intelligence">>)}
      [] k = 2 -> {Anchored(<<"abstract", "thinking">>), Anywhere(<<"conceptually", "integrated">>)}
      [] k = 3 -> {Anchored(<<"originality">>), Anywhere(<<"original", "insight">>)}
      [] k = 4 -> {Anchored(<<"reasoning", "style">>),
                   Anywhere(<<"what", "kind", "of", "reasoning">>)}
      [] k = 5 -> {Anchored(<<"ambiguity">>), Anywhere(<<"multiple", "perspectives">>),
                   Anywhere(<<"conceptual", "ambiguity">>)}
      [] k = 6 -> {Anchored(<<"metacognitive">>), Anywhere(<<"metacognition">>)}
      [] k = 7 -> {Anchored(<<"thinking", "type">>), Anywhere(<<"systematizer">>),
                   Anywhere(<<"synthesizer">>)}
      [] k = 8 -> {Anchored(<<"cognitive", "complexity">>),
                   Anywhere(<<"indicators", "of", "cognitive">>)}
      [] k = 9 -> {Anchored(<<"thinking", "quality">>),
                   Anywhere(<<"disciplined", "or", "meandering">>),
                   Anywhere(<<"coherent", "or", "fragmented">>)}
      [] k = 10 -> {Anchored(<<"cognitive", "archetype">>), Anywhere(<<"archetype">>)}

(* The condition on currentQuestion that goes with the pattern of section k *)
HeadingGuard(k, question) ==
    CASE k = 1 -> question = 0
      [] k = 2 -> question = 0 \/ question = 1
      [] OTHER -> question <= k - 1

RECURSIVE WordsAt(_, _, _)
WordsAt(line, p, words) ==
    IF words = <<>> THEN TRUE
    ELSE /\ p <= Len(line)
         /\ toLowerCase(line[p]) = Head(words)
         /\ WordsAt(line, SkipSpaces(line, p + 1), Tail(words))

(* pattern.test(line), case-insensitive *)
test(k, line) ==
    \E alt \in HeadingPattern(k) :
        IF alt.anchored THEN WordsAt(line, 1, alt.words)
        ELSE \E p \in 1..Len(line) : WordsAt(line, p, alt.words)

(* The section whose else-if branch takes the line: the first whose pattern    *)
(* matches and whose guard holds; 0 if there is none                           *)
KeywordHeading(line, question) ==
    LET taken == {k \in 1..10 : test(k, line) /\ HeadingGuard(k, question)}
    IN  IF taken = {} THEN 0 ELSE CHOOSE k \in taken : \A l \in taken : k <= l

DefaultReport ==
    [intelligence |-> <<"This text demonstrates sophisticated intellectual capacity through systematic analysis and complex theoretical development.">>,
     abstractThinking |-> <<"The author shows advanced abstract thinking through their handling of complex philosophical concepts and theoretical frameworks.">>,
     originality |-> <<"The text reveals original analytical approaches and novel conceptual distinctions.">>,
     reasoningStyle |-> <<"The author employs systematic, analytical reasoning with careful attention to logical structure.">>,
     ambiguityHandling |-> <<"The author skillfully manages conceptual complexity through precise definitions and systematic analysis.">>,
     metacognition |-> <<"The author demonstrates metacognitive awareness through their systematic approach to organizing complex material.">>,
     thinkingType |-> <<"The author exhibits systematic, convergent thinking focused on building coherent theoretical frameworks.">>,
     cognitiveComplexity |-> <<"High cognitive complexity is evident in the integration of multiple conceptual levels and theoretical perspectives.">>,
     thinkingQuality |-> <<"The thinking quality is sophisticated, characterized by precision, systematic analysis, and theoretical depth.">>,
     cognitiveArchetype |-> <<"Systematic Theoretical Analyst - a mind that excels at creating coherent frameworks and precise conceptual analysis.">>,
     generatedBy |-> <<"deepseek">>]

updateReportWithAnswer(rep, questionNumber, text) ==
    CASE questionNumber = 1 -> [rep EXCEPT !.intelligence = text]
      [] questionNumber = 2 -> [rep EXCEPT !.abstractThinking = text]
      [] questionNumber = 3 -> [rep EXCEPT !.originality = text]
      [] questionNumber = 4 -> [rep EXCEPT !.reasoningStyle = text]
      [] questionNumber = 5 -> [rep EXCEPT !.ambiguityHandling = text]
      [] questionNumber = 6 -> [rep EXCEPT !.metacognition = text]
      [] questionNumber = 7 -> [rep EXCEPT !.thinkingType = text]
      [] questionNumber = 8 -> [rep EXCEPT !.cognitiveComplexity = text]
      [] questionNumber = 9 -> [rep EXCEPT !.thinkingQuality = text]
      [] questionNumber = 10 -> [rep EXCEPT !.cognitiveArchetype = text]
      [] OTHER -> rep

SaveSection_Blank ==
    IF currentQuestion > 0
    THEN updateReportWithAnswer(report, currentQuestion, trim(currentContent))
    ELSE report

(* if (currentQuestion > 0 && currentContent.trim()) updateReportWithAnswer(...) *)
SaveSection ==
    IF currentQuestion > 0 /\ trim(currentContent) # <<>>
    THEN updateReportWithAnswer(report, currentQuestion, trim(currentContent))
    ELSE report

(* parseReportResponse(content, provider) up to its loop *)
StartParse(text) ==
    /\ content = text
    /\ lines = split(text)
    /\ i = 0
    /\ currentQuestion = 0
    /\ currentContent = <<>>
    /\ report = DefaultReport
    /\ parsePc = "loop"

(* One iteration of the loop over the lines *)
ParseLine ==
    /\ parsePc = "loop" /\ i < Len(lines)
    /\ LET line == trim(lines[i + 1])
           match == questionMatch(line)
           heading == KeywordHeading(line, currentQuestion)
       IN  \/ /\ match.matched
              /\ report' = SaveSection
              /\ currentQuestion' = parseInt(match.number)[1]
              /\ currentContent' = IF match.rest # <<>> THEN match.rest \o <<"\n">> ELSE <<>>
           \/ /\ ~match.matched /\ heading > 0
              /\ report' = SaveSection
              /\ currentQuestion' = heading
              /\ currentContent' = <<>>
           \/ /\ ~match.matched /\ heading = 0 /\ currentQuestion > 0
              /\ currentContent' = currentContent \o line \o <<"\n">>
              /\ UNCHANGED <<report, currentQuestion>>
           \/ /\ ~match.matched /\ heading = 0 /\ currentQuestion = 0
              /\ UNCHANGED <<report, currentQuestion, currentContent>>
    /\ i' = i + 1
    /\ UNCHANGED <<content, lines, parsePc>>

(* After the loop: the last section is saved and the report returned *)
ReturnReport ==
    /\ parsePc = "loop" /\ i = Len(lines)
    /\ report' = SaveSection
    /\ parsePc' = "done"
    /\ UNCHANGED <<content, lines, i, currentQuestion, currentContent>>

---------------------------------------------------------------------------
(* Storage of the per-owner entities: documents, analysis requests and         *)
(* comprehensive reports.  NeonStorage filters by id and user_id in SQL,       *)
(* MemStorage looks the id up and compares user_id; both give these results.   *)

NoDocument == [exists |-> FALSE, user_id |-> ""]
NoRequest == [exists |-> FALSE, user_id |-> "", result |-> NULL]
NoReport == [exists |-> FALSE, user_id |-> "", analysis_request_id |-> ""]

(* The where clause of the single-row methods: the id and the owner both match *)
OwnedRow_AnyOwner(row, userId) == row.exists

OwnedRow(row, userId) == row.exists /\ row.user_id = userId

(* The ids of the rows of a table with user_id = userId *)
OwnedBy(table, userId) ==
    {id \in DOMAIN table : table[id].exists /\ table[id].user_id = userId}

getUserDocuments(userId) == OwnedBy(documents, userId)

getDocument(id, userId) ==
    IF OwnedRow(documents[id], userId) THEN documents[id] ELSE NoDocument

createDocument(id, userId) ==
    [documents EXCEPT ![id] = [exists |-> TRUE, user_id |-> userId]]

deleteDocument(id, userId) ==
    [documents EXCEPT ![id] = IF OwnedRow(@, userId) THEN NoDocument ELSE @]

getUserAnalysisRequests(userId) == OwnedBy(analysisRequests, userId)

getAnalysisRequest(id, userId) ==
    IF OwnedRow(analysisRequests[id], userId) THEN analysisRequests[id] ELSE NoRequest

createAnalysisRequest(id, userId) ==
    [analysisRequests EXCEPT ![id] = [exists |-> TRUE, user_id |-> userId, result |-> NULL]]

updateAnalysisResult(id, userId, result) ==
    [analysisRequests EXCEPT ![id] =
        IF OwnedRow(@, userId) THEN [@ EXCEPT !.result = <<result>>] ELSE @]

getUserComprehensiveReports(userId) == OwnedBy(comprehensiveReports, userId)

getComprehensiveReport(id, userId) ==
    IF OwnedRow(comprehensiveReports[id], userId) THEN comprehensiveReports[id]
    ELSE NoReport

createComprehensiveReport(id, userId, requestId) ==
    [comprehensiveReports EXCEPT ![id] =
        [exists |-> TRUE, user_id |-> userId, analysis_request_id |-> requestId]]

(* MemStorage, anonymous sessions: the class keeps no session collection.      *)
(* getAnonymousSession returns undefined, createAnonymousSession returns the   *)
(* row it built and stores nothing, updateAnonymousSessionTokens does nothing. *)
MemStorage_getAnonymousSession(sessionId) == NoSession

MemStorage_createAnonymousSession(sessionId, tokensUsed) ==
    [exists |-> TRUE, tokens_used |-> <<tokensUsed>>]

(* The totals TokenService writes with updateAnonymousSessionTokens *)
SessionTotals == {100, 1000}

SessionCalled(op, id, neon, mem) ==
    [tick |-> 1 - lastSessionCall.tick, op |-> op, id |-> id, neon |-> neon, mem |-> mem]

(* One call, answered by each store: NeonStorage works on anonymous_sessions *)
CreateSession(sessionId) ==
    /\ ~anonymousSessions[sessionId].exists
    /\ anonymousSessions' = createAnonymousSession(sessionId, 0)
    /\ lastSessionCall' = SessionCalled("createAnonymousSession", sessionId,
            [exists |-> TRUE, tokens_used |-> <<0>>],
            MemStorage_createAnonymousSession(sessionId, 0))

UpdateSession(sessionId, tokensUsed) ==
    /\ anonymousSessions' = updateAnonymousSessionTokens(sessionId, tokensUsed)
    /\ lastSessionCall' = SessionCalled("updateAnonymousSessionTokens", sessionId,
                                        NoSession, NoSession)

GetSession(sessionId) ==
    /\ lastSessionCall' = SessionCalled("getAnonymousSession", sessionId,
            getAnonymousSession(sessionId), MemStorage_getAnonymousSession(sessionId))
    /\ UNCHANGED anonymousSessions

(* checkFreeUserLimits, which starts from storage.getAnonymousSession *)
CheckSession(sessionId, inputTokens, outputTokens) ==
    /\ lastSessionCall' = SessionCalled("checkFreeUserLimits", sessionId,
            FreeLimitsResult(getAnonymousSession(sessionId), inputTokens, outputTokens),
            FreeLimitsResult(MemStorage_getAnonymousSession(sessionId),
                             inputTokens, outputTokens))
    /\ UNCHANGED anonymousSessions

(* What a call returned: found for a row or true, listed for the rows of a list *)
Called(op, id, userId, found, listed) ==
    [tick |-> 1 - lastStorageCall.tick, op |-> op, id |-> id, userId |-> userId,
     found |-> found, listed |-> listed]

DocumentCall(userId) ==
    /\ \/ \E id \in DocumentIds :
            /\ ~documents[id].exists
            /\ documents' = createDocument(id, userId)
            /\ lastStorageCall' = Called("createDocument", id, userId, TRUE, {})
       \/ \E id \in DocumentIds :
            /\ documents' = deleteDocument(id, userId)
            /\ lastStorageCall' = Called("deleteDocument", id, userId,
                                         getDocument(id, userId).exists, {})
       \/ \E id \in DocumentIds :
            /\ lastStorageCall' = Called("getDocument", id, userId,
                                         getDocument(id, userId).exists, {})
            /\ UNCHANGED documents
       \/ /\ lastStorageCall' = Called("getUserDocuments", "", userId, TRUE,
                                       getUserDocuments(userId))
          /\ UNCHANGED documents
    /\ UNCHANGED <<analysisRequests, comprehensiveReports>>

RequestCall(userId) ==
    /\ \/ \E id \in RequestIds :
            /\ ~analysisRequests[id].exists
            /\ analysisRequests' = createAnalysisRequest(id, userId)
            /\ lastStorageCall' = Called("createAnalysisRequest", id, userId, TRUE, {})
       \/ \E id \in RequestIds, result \in Results :
            /\ analysisRequests' = updateAnalysisResult(id, userId, result)
            /\ lastStorageCall' = Called("updateAnalysisResult", id, userId, FALSE, {})
       \/ \E id \in RequestIds :
            /\ lastStorageCall' = Called("getAnalysisRequest", id, userId,
                                         getAnalysisRequest(id, userId).exists, {})
            /\ UNCHANGED analysisRequests
       \/ /\ lastStorageCall' = Called("getUserAnalysisRequests", "", userId, TRUE,
                                       getUserAnalysisRequests(userId))
          /\ UNCHANGED analysisRequests
    /\ UNCHANGED <<documents, comprehensiveReports>>

ReportCall(userId) ==
    /\ \/ \E id \in ReportIds, requestId \in RequestIds :
            /\ ~comprehensiveReports[id].exists
            /\ analysisRequests[requestId].exists
            /\ comprehensiveReports' = createComprehensiveReport(id, userId, requestId)
            /\ lastStorageCall' = Called("createComprehensiveReport", id, userId, TRUE, {})
       \/ \E id \in ReportIds :
            /\ lastStorageCall' = Called("getComprehensiveReport", id, userId,
                                         getComprehensiveReport(id, userId).exists, {})
            /\ UNCHANGED comprehensiveReports
       \/ /\ lastStorageCall' = Called("getUserComprehensiveReports", "", userId, TRUE,
                                       getUserComprehensiveReports(userId))
          /\ UNCHANGED comprehensiveReports
    /\ UNCHANGED <<documents, analysisRequests>>

---------------------------------------------------------------------------
(* Short-form analysis: analyzeWithOpenAI, analyzeWithAnthropic,               *)
(* analyzeWithDeepSeek.  A JSON value is its type with its number or string.   *)

Undefined == [type |-> "undefined", num |-> 0, str |-> ""]
Num(n) == [type |-> "number", num |-> n, str |-> ""]
NaN == [type |-> "number", num |-> 0, str |-> "NaN"]
Str(s) == [type |-> "string", num |-> 0, str |-> s]
Arr(s) == [type |-> "array", num |-> 0, str |-> s]

(* ToBoolean *)
Truthy(v) ==
    CASE v.type = "undefined" -> FALSE
      [] v.type = "number" -> v.num # 0 /\ v # NaN
      [] v.type = "string" -> v.str # ""
      [] OTHER -> TRUE

(* ToNumber of a number, of a string that is no numeral, of a one-string array *)
NumberOf(v) == IF v.type = "number" THEN v ELSE NaN

(* Math.max(lo, Math.min(hi, v)) *)
Clamp(lo, hi, v) ==
    IF NumberOf(v) = NaN THEN NaN
    ELSE Num(MathMax(lo, MathMin(hi, NumberOf(v).num)))

NoAnalysis ==
    [intelligenceScore |-> Undefined, characteristics |-> Undefined,
     detailedAnalysis |-> Undefined, strengths |-> Undefined, tendencies |-> Undefined]

ValidObject ==
    [intelligenceScore |-> Num(90), characteristics |-> Arr("traits"),
     detailedAnalysis |-> Str("analysis"), strengths |-> Arr("strengths"),
     tendencies |-> Arr("tendencies")]

(* The objects a provider can answer: the valid one, the empty one, and the    *)
(* valid one with one field missing, of another type, or out of range          *)
Objects ==
    {ValidObject, NoAnalysis}
        \cup {[ValidObject EXCEPT !.intelligenceScore = v] :
                  v \in {Undefined, Num(0), Num(150), Str("high")}}
        \cup {[ValidObject EXCEPT !.characteristics = v] : v \in {Undefined, Str("traits")}}
        \cup {[ValidObject EXCEPT !.detailedAnalysis = v] : v \in {Undefined, Str(""), Num(5)}}
        \cup {[ValidObject EXCEPT !.strengths = v] : v \in {Undefined}}
        \cup {[ValidObject EXCEPT !.tendencies = v] : v \in {Undefined}}

(* The content of an answer, in pieces: prose, braces, the fields of an object *)
Bare == <<"{", "fields", "}">>
Fenced == <<"prose", "{", "fields", "}", "prose">>
Truncated == <<"{", "fields">>
Prose == <<"prose">>
Reversed == <<"}", "prose", "{">>

(* What the provider does: the call fails (no key accepted, transport or HTTP  *)
(* error), or it answers with some content                                     *)
Responses ==
    [ok : {FALSE}, content : {<<>>}, object : {ValidObject}]
        \cup [ok : {TRUE}, content : {<<>>, Prose, Reversed}, object : {ValidObject}]
        \cup [ok : {TRUE}, content : {Bare, Fenced, Truncated}, object : Objects]

(* JSON.parse: the text must be one object and nothing else *)
CanParse(answer) == answer = Bare

(* content.match of an opening brace, anything, a closing brace: greedy *)
jsonMatch(answer) ==
    LET opens == {k \in DOMAIN answer : answer[k] = "{"}
        closes == {k \in DOMAIN answer : answer[k] = "}"} IN
    IF opens = {} \/ closes = {} THEN <<>>
    ELSE LET first == CHOOSE k \in opens : \A j \in opens : k <= j
             last == CHOOSE k \in closes : \A j \in closes : k >= j IN
         IF first < last THEN SubSeq(answer, first, last) ELSE <<>>

IsValidResult_ScoreOnly(result) == result.intelligenceScore.type = "number"

(* The validation of the result structure, negated *)
IsValidResult(result) ==
    /\ result.intelligenceScore.type = "number"
    /\ result.characteristics.type = "array"
    /\ result.detailedAnalysis.type = "string"
    /\ result.strengths.type = "array"
    /\ result.tendencies.type = "array"

Threw(provider, key, response, message) ==
    [provider |-> provider, key |-> key, response |-> response,
     text |-> [wordCount |-> 0, letters |-> 0, complexSentences |-> 0],
     failed |-> TRUE, error |-> message, result |-> NoAnalysis]

Returned5(provider, key, response, text, result) ==
    [provider |-> provider, key |-> key, response |-> response, text |-> text,
     failed |-> FALSE, error |-> "", result |-> result]

(* analyzeWithOpenAI and analyzeWithAnthropic: the same steps, every throw     *)
(* rethrown by the catch clause                                                *)
AnalyzeStrict(provider, key, response) ==
    IF ~key THEN Threw(provider, key, response, "API key is missing")
    ELSE IF ~response.ok THEN Threw(provider, key, response, "API error")
    ELSE IF response.content = <<>> THEN Threw(provider, key, response, "No response")
    ELSE IF ~CanParse(response.content) THEN Threw(provider, key, response, "SyntaxError")
    ELSE IF ~IsValidResult(response.object)
    THEN Threw(provider, key, response, "Invalid response format")
    ELSE Returned5(provider, key, response,
                   [wordCount |-> 0, letters |-> 0, complexSentences |-> 0],
                   response.object)

analyzeWithOpenAI ==
    \E key \in BOOLEAN, response \in Responses :
        analysis' = AnalyzeStrict("OpenAI", key, response)

analyzeWithAnthropic ==
    \E key \in BOOLEAN, response \in Responses :
        analysis' = AnalyzeStrict("Anthropic", key, response)

(* The text by what createFallbackResult measures of it *)
TextStats ==
    {[wordCount |-> 1, letters |-> 0, complexSentences |-> 0],
     [wordCount |-> 1, letters |-> 7, complexSentences |-> 4],
     [wordCount |-> 501, letters |-> 2004, complexSentences |-> 0],
     [wordCount |-> 501, letters |-> 3006, complexSentences |-> 4]}

createFallbackResult(text) ==
    LET base == 70
        s1 == IF text.wordCount > 500 THEN base + 5 ELSE base
        s2 == IF text.letters > 5 * text.wordCount THEN s1 + 5 ELSE s1
        s3 == IF text.complexSentences > 3 THEN s2 + 5 ELSE s2
        score == MathMax(65, MathMin(85, s3)) IN
    [intelligenceScore |-> Num(score),
     characteristics |-> Arr("analytical"),
     detailedAnalysis |-> Str(IF score > 75 THEN "above-average" ELSE "solid"),
     strengths |-> Arr("logical reasoning"),
     tendencies |-> Arr("methodical analysis")]

OrElse(v, default) == IF Truthy(v) THEN v ELSE default

(* The result built from the parsed object, every field with its default *)
DeepSeekResult(parsed) ==
    [intelligenceScore |-> Clamp(1, 100, OrElse(parsed.intelligenceScore, Num(75))),
     characteristics |-> IF parsed.characteristics.type = "array"
                         THEN parsed.characteristics ELSE Arr("analytical"),
     detailedAnalysis |-> OrElse(parsed.detailedAnalysis, Str("solid")),
     strengths |-> IF parsed.strengths.type = "array"
                   THEN parsed.strengths ELSE Arr("logical reasoning"),
     tendencies |-> IF parsed.tendencies.type = "array"
                    THEN parsed.tendencies ELSE Arr("methodical analysis")]

(* analyzeWithDeepSeek: no key check; a request without a key is refused by    *)
(* the provider.  Every throw ends in createFallbackResult.                    *)
analyzeWithDeepSeek ==
    \E key \in BOOLEAN, response \in Responses, text \in TextStats :
        analysis' = Returned5("DeepSeek", key, response, text,
            IF ~key \/ ~response.ok THEN createFallbackResult(text)
            ELSE IF response.content = <<>> THEN createFallbackResult(text)
            ELSE IF jsonMatch(response.content) = <<>> THEN createFallbackResult(text)
            ELSE IF ~CanParse(jsonMatch(response.content))
            THEN createFallbackResult(text)
            ELSE DeepSeekResult(response.object))

---------------------------------------------------------------------------
(* Specifications *)

IdleProcs == [p \in Procs |-> [NewCall("", "", 0, 0) EXCEPT !.pc = "idle", !.rows = 0]]

AllIdle == \A p \in Procs : Idle(p)

(* Registered users.  u1 is an ordinary user, adm is on the admin allow-list  *)
(* (its e-mail in another letter case), ghost is the id of no user.           *)
UserRows(b1, ba) ==
    [id \in UserIds |->
        CASE id = "u1" -> [exists |-> TRUE, email |-> "alice@example.com",
                           token_balance |-> b1]
          [] id = "adm" -> [exists |-> TRUE, email |-> "JMKuczynski@Yahoo.com",
                            token_balance |-> ba]
          [] OTHER -> NoUser]

InitAnalysis ==
    analysis = Threw("", FALSE, [ok |-> FALSE, content |-> <<>>, object |-> ValidObject], "")

InitStoreVars ==
    /\ documents = [id \in DocumentIds |-> NoDocument]
    /\ analysisRequests = [id \in RequestIds |-> NoRequest]
    /\ comprehensiveReports = [id \in ReportIds |-> NoReport]
    /\ lastStorageCall = [tick |-> 0, op |-> "", id |-> "", userId |-> "",
                          found |-> FALSE, listed |-> {}]
    /\ lastSessionCall = [tick |-> 0, op |-> "", id |-> "",
                          neon |-> NoSession, mem |-> NoSession]

InitPayVars ==
    /\ intents = [id \in IntentIds |->
          IF id = "pi_ext"
          THEN [exists |-> TRUE, status |-> "succeeded", userId |-> "", tokens |-> <<>>]
          ELSE NoIntent]
    /\ payments = [id \in IntentIds |-> NoPayment]
    /\ lastPay = NoPay
    /\ payCalls = 0

Init ==
    /\ \E b1 \in {NULL, <<0>>, <<2>>}, ba \in {NULL, <<5>>, <<UNLIMITED_BALANCE>>} :
          users = UserRows(b1, ba)
    /\ balance0 = [id \in UserIds |-> users[id].token_balance]
    /\ tokenUsage = <<>>
    /\ anonymousSessions = [s \in SessionIds |-> NoSession]
    /\ proc = IdleProcs
    /\ calls = 0
    /\ resets = {}
    /\ overlap = [p \in Procs |-> FALSE]
    /\ InitPayVars
    /\ StartParse(<<>>)
    /\ InitStoreVars
    /\ InitAnalysis

Step(p) ==
    \/ checkRegisteredUserTokens(p)
    \/ deductRegisteredUserTokens(p)
    \/ addTokensToUser(p)

Call(p) ==
    \/ CallCheckRegisteredUserTokens(p)
    \/ CallDeductRegisteredUserTokens(p)
    \/ CallAddTokensToUser(p)

(* One request at a time: a call starts only when no other is in progress *)
Next ==
    /\ (AllIdle /\ Call("p1")) \/ Step("p1")
    /\ UNCHANGED <<overlap, payVars, parseVars, storeVars, analysis>>

Spec == Init /\ [][Next]_vars

(* Concurrent requests: the calls of different requests interleave at their awaits *)
AddInProgress(pr, q, userId) ==
    /\ pr[q].op = "addTokensToUser" /\ pr[q].pc \notin {"idle", "done"}
    /\ pr[q].id = userId

Overlapped(p) ==
    LET other == \E q \in Procs \ {p} :
                    AddInProgress(proc, q, proc'[p].id) \/ AddInProgress(proc', q, proc'[p].id)
    IN  IF Idle(p) /\ proc'[p].pc \notin {"idle", "done"} THEN other   \* p starts a call
        ELSE IF ~Idle(p) THEN overlap[p] \/ other                      \* p is in a call
        ELSE overlap[p]

NextConc ==
    /\ \E p \in Procs : (calls < MaxConcCalls /\ Call(p)) \/ Step(p)
    /\ overlap' = [p \in Procs |-> Overlapped(p)]
    /\ UNCHANGED <<payVars, parseVars, storeVars, analysis>>

SpecConc == Init /\ [][NextConc]_vars

(* The free tier, one request at a time.  Session s1 exists, s2 does not yet. *)
InitFree ==
    /\ users = UserRows(<<0>>, <<UNLIMITED_BALANCE>>)
    /\ balance0 = [id \in UserIds |-> users[id].token_balance]
    /\ tokenUsage = <<>>
    /\ \E u \in {0, 950} :
          anonymousSessions = [s \in SessionIds |->
              IF s = "s1" THEN [exists |-> TRUE, tokens_used |-> <<u>>] ELSE NoSession]
    /\ proc = IdleProcs
    /\ calls = 0
    /\ resets = {}
    /\ overlap = [p \in Procs |-> FALSE]
    /\ InitPayVars
    /\ StartParse(<<>>)
    /\ InitStoreVars
    /\ InitAnalysis

CallFree(p) == CallCheckFreeUserLimits(p) \/ CallDeductFreeUserTokens(p)

StepFree(p) == checkFreeUserLimits(p) \/ deductFreeUserTokens(p)

NextFree ==
    /\ (AllIdle /\ CallFree("p1")) \/ StepFree("p1")
    /\ UNCHANGED <<overlap, payVars, parseVars, storeVars, analysis>>

SpecFree == InitFree /\ [][NextFree]_vars

(* Debits of registered users and of anonymous sessions, one after the other *)
InitDebit ==
    /\ \E b1 \in {NULL, <<2>>} : users = UserRows(b1, <<UNLIMITED_BALANCE>>)
    /\ balance0 = [id \in UserIds |-> users[id].token_balance]
    /\ tokenUsage = <<>>
    /\ \E u \in {0, 950} :
          anonymousSessions = [s \in SessionIds |->
              IF s = "s1" THEN [exists |-> TRUE, tokens_used |-> <<u>>] ELSE NoSession]
    /\ proc = IdleProcs
    /\ calls = 0
    /\ resets = {}
    /\ overlap = [p \in Procs |-> FALSE]
    /\ InitPayVars
    /\ StartParse(<<>>)
    /\ InitStoreVars
    /\ InitAnalysis

NextDebit ==
    /\ \/ AllIdle /\ CallDeductRegisteredUserTokens("p1")
       \/ AllIdle /\ CallDeductFreeUserTokens("p1")
       \/ deductRegisteredUserTokens("p1")
       \/ deductFreeUserTokens("p1")
    /\ UNCHANGED <<overlap, payVars, parseVars, storeVars, analysis>>

SpecDebit == InitDebit /\ [][NextDebit]_vars

(* Requests of user u1, each a check followed by the debit it allowed; two     *)
(* requests may be in progress at once                                         *)
InitRequests ==
    /\ \E b1 \in {NULL, <<3>>, <<5>>} : users = UserRows(b1, <<UNLIMITED_BALANCE>>)
    /\ balance0 = [id \in UserIds |-> users[id].token_balance]
    /\ tokenUsage = <<>>
    /\ anonymousSessions = [s \in SessionIds |-> NoSession]
    /\ proc = IdleProcs
    /\ calls = 0
    /\ resets = {}
    /\ overlap = [p \in Procs |-> FALSE]
    /\ InitPayVars
    /\ StartParse(<<>>)
    /\ InitStoreVars
    /\ InitAnalysis

NextRace ==
    /\ \E p \in Procs :
          \/ RequestCheck(p)
          \/ RequestDeduct(p)
          \/ checkRegisteredUserTokens(p)
          \/ deductRegisteredUserTokens(p)
    /\ UNCHANGED <<overlap, payVars, parseVars, storeVars, analysis>>

SpecRace == InitRequests /\ [][NextRace]_vars

(* The same requests, one at a time: a request starts when no other is between *)
(* its check and the end of its debit                                          *)
InRequest(p) == ~Idle(p) \/ Allowed(p)

NextSequential ==
    /\ \/ (\A p \in Procs : ~InRequest(p)) /\ RequestCheck("p1")
       \/ RequestDeduct("p1")
       \/ checkRegisteredUserTokens("p1")
       \/ deductRegisteredUserTokens("p1")
    /\ UNCHANGED <<overlap, payVars, parseVars, storeVars, analysis>>

SpecSequential == InitRequests /\ [][NextSequential]_vars

(* Requests of anonymous sessions, one at a time, each a check followed by the *)
(* debit it allowed                                                            *)
NextFreeSequential ==
    /\ \/ FreeRequestCheck("p1")
       \/ FreeRequestDeduct("p1")
       \/ checkFreeUserLimits("p1")
       \/ deductFreeUserTokens("p1")
    /\ UNCHANGED <<overlap, payVars, parseVars, storeVars, analysis>>

SpecFreeSequential == InitFree /\ [][NextFreeSequential]_vars

(* All calls that look up a user or a session, one after the other *)
NextLookup ==
    /\ \/ AllIdle /\ Call("p1")
       \/ AllIdle /\ CallCheckFreeUserLimits("p1")
       \/ Step("p1")
       \/ checkFreeUserLimits("p1")
    /\ UNCHANGED <<overlap, payVars, parseVars, storeVars, analysis>>

SpecLookup == InitDebit /\ [][NextLookup]_vars

(* The payment bridge: StripeService calls made one after the other, any of    *)
(* their awaited calls may raise, and the processor settles intents in between *)
PayFailures ==
    {"none", "paymentIntents.retrieve", "getUser", "updateUserTokenBalance",
     "createTokenUsage", "updatePaymentStatus"}

InitPay ==
    /\ users = UserRows(<<0>>, <<UNLIMITED_BALANCE>>)
    /\ balance0 = [id \in UserIds |-> users[id].token_balance]
    /\ tokenUsage = <<>>
    /\ anonymousSessions = [s \in SessionIds |-> NoSession]
    /\ proc = IdleProcs
    /\ calls = 0
    /\ resets = {}
    /\ overlap = [p \in Procs |-> FALSE]
    /\ InitPayVars
    /\ StartParse(<<>>)
    /\ InitStoreVars
    /\ InitAnalysis

NextPay ==
    /\ \/ \E data \in PaymentData, fail \in {"none", "paymentIntents.create", "createPayment"} :
             createPaymentIntent(data, fail)
       \/ \E id \in IntentIds : PaymentSucceeds(id)
       \/ \E id \in IntentIds, fail \in PayFailures, catchFails \in BOOLEAN :
             handleSuccessfulPayment(id, fail, catchFails)
       \/ \E id \in IntentIds, fails \in BOOLEAN : handleFailedPayment(id, fails)
    /\ UNCHANGED <<balance0, anonymousSessions, proc, calls, resets, overlap, parseVars, storeVars, analysis>>

SpecPay == InitPay /\ [][NextPay]_vars

(* The parser applied to responses of two kinds: ten numbered sections, of     *)
(* which one has a body of choice, and every text of up to MaxLines lines.     *)
HeadingForms == {"N.", "N:", "Question N:"}

Heading(form, n) ==
    CASE form = "N." -> NumberToString(n) \o <<".">>
      [] form = "N:" -> NumberToString(n) \o <<":">>
      [] form = "Question N:" -> <<"Question", " ">> \o NumberToString(n) \o <<":">>

Bodies ==
    {<<"answer">>,
     <<" ", "answer", " ">>,
     <<"first", "\n", "second">>,
     <<"first", " ", "\n", " ", "second">>,
     <<"the", " ", "archetype">>}

TenSectionInputs ==
    [form : HeadingForms, sameLine : BOOLEAN, focus : 1..10, body : Bodies]

SectionBody(d, n) ==
    IF n = d.focus THEN d.body ELSE <<"answer", " ">> \o NumberToString(n)

RECURSIVE SectionsUpTo(_, _)
SectionsUpTo(d, n) ==
    IF n = 0 THEN <<>>
    ELSE SectionsUpTo(d, n - 1)
           \o (IF n = 1 THEN <<>> ELSE <<"\n">>)
           \o Heading(d.form, n)
           \o (IF d.sameLine THEN <<" ">> ELSE <<"\n">>)
           \o SectionBody(d, n)

TenSections(d) == SectionsUpTo(d, 10)

LineUniverse ==
    {<<>>,
     <<"plain", " ", "text">>,
     <<"5", ".">>,
     <<"Question", " ", "2", ":", " ", "text">>,
     <<"3", ".", " ", "Original", " ", "insight">>,
     <<"original", " ", "insight">>,
     <<" ", "originality", " ">>,
     <<"the", " ", "Archetype">>,
     <<"1", "1", ".", " ", "extra">>}

RECURSIVE JoinLines(_)
JoinLines(ls) ==
    IF ls = <<>> THEN <<>>
    ELSE IF Len(ls) = 1 THEN ls[1]
    ELSE ls[1] \o <<"\n">> \o JoinLines(Tail(ls))

ShortInputs ==
    {JoinLines(ls) : ls \in UNION {[1..n -> LineUniverse] : n \in 0..MaxLines}}

InitParse ==
    /\ users = UserRows(<<0>>, <<UNLIMITED_BALANCE>>)
    /\ balance0 = [id \in UserIds |-> users[id].token_balance]
    /\ tokenUsage = <<>>
    /\ anonymousSessions = [s \in SessionIds |-> NoSession]
    /\ proc = IdleProcs
    /\ calls = 0
    /\ resets = {}
    /\ overlap = [p \in Procs |-> FALSE]
    /\ InitPayVars
    /\ \E text \in {TenSections(d) : d \in TenSectionInputs} \cup ShortInputs :
          StartParse(text)
    /\ InitStoreVars
    /\ InitAnalysis

NextParse ==
    /\ ParseLine \/ ReturnReport
    /\ UNCHANGED <<tokenVars, payVars, storeVars, analysis>>

SpecParse == InitParse /\ [][NextParse]_vars

(* Short-form analyses by the three providers, whatever the provider answers *)
NextAnalyze ==
    /\ analyzeWithOpenAI \/ analyzeWithAnthropic \/ analyzeWithDeepSeek
    /\ UNCHANGED <<tokenVars, payVars, parseVars, storeVars>>

SpecAnalyze == InitPay /\ [][NextAnalyze]_vars

(* The cost of an upload, computed for two requests *)
NextCost ==
    /\ \E p \in Procs :
          \/ calculateUploadCost(p)
          \/ calculateFreeUploadCost(p)
          \/ calculateRegisteredUploadCost(p)
    /\ UNCHANGED <<overlap, payVars, parseVars, storeVars, analysis>>

SpecCost == InitFree /\ [][NextCost]_vars

(* Token estimates of the texts of two requests *)
NextEstimate ==
    /\ \E p \in Procs : estimateTokens(p)
    /\ UNCHANGED <<overlap, payVars, parseVars, storeVars, analysis>>

SpecEstimate == InitFree /\ [][NextEstimate]_vars

(* Upload permission checks between free-tier debits, one call at a time *)
NextUpload ==
    /\ \/ AllIdle /\ CallCanUserUploadFiles("p1")
       \/ AllIdle /\ CallDeductFreeUserTokens("p1")
       \/ canUserUploadFiles("p1")
       \/ deductFreeUserTokens("p1")
    /\ UNCHANGED <<overlap, payVars, parseVars, storeVars, analysis>>

SpecUpload == InitFree /\ [][NextUpload]_vars

(* Requests through authMiddleware while free-tier debits run beside them *)
NextAuth ==
    /\ \E p \in Procs :
          \/ calls < MaxConcCalls /\ CallAuthMiddleware(p)
          \/ calls < MaxConcCalls /\ CallDeductFreeUserTokens(p)
          \/ authMiddleware(p)
          \/ deductFreeUserTokens(p)
    /\ UNCHANGED <<overlap, payVars, parseVars, storeVars, analysis>>

SpecAuth == InitFree /\ [][NextAuth]_vars

(* Storage calls on the per-owner entities, made on behalf of two users *)
NextStore ==
    /\ \E userId \in Owners :
          DocumentCall(userId) \/ RequestCall(userId) \/ ReportCall(userId)
    /\ UNCHANGED <<tokenVars, payVars, parseVars, analysis, lastSessionCall>>

SpecStore == InitPay /\ [][NextStore]_vars

(* The anonymous-session calls of TokenService, made against NeonStorage and   *)
(* against MemStorage alike                                                    *)
NextSession ==
    /\ \E sessionId \in SessionIds :
          \/ CreateSession(sessionId)
          \/ \E tokensUsed \in SessionTotals : UpdateSession(sessionId, tokensUsed)
          \/ GetSession(sessionId)
          \/ \E req \in FreeRequests : CheckSession(sessionId, req[1], req[2])
    /\ UNCHANGED <<users, balance0, tokenUsage, proc, calls, resets, overlap,
                   payVars, parseVars, analysis,
                   documents, analysisRequests, comprehensiveReports, lastStorageCall>>

(* Both stores start with no anonymous session *)
InitSession ==
    /\ users = UserRows(<<0>>, <<UNLIMITED_BALANCE>>)
    /\ balance0 = [id \in UserIds |-> users[id].token_balance]
    /\ tokenUsage = <<>>
    /\ anonymousSessions = [s \in SessionIds |-> NoSession]
    /\ proc = IdleProcs
    /\ calls = 0
    /\ resets = {}
    /\ overlap = [p \in Procs |-> FALSE]
    /\ InitPayVars
    /\ StartParse(<<>>)
    /\ InitStoreVars
    /\ InitAnalysis

SpecSession == InitSession /\ [][NextSession]_vars

---------------------------------------------------------------------------
(* Claims about the token accounting engine *)

StoredBalance(id) == IF users[id].token_balance = NULL THEN 0 ELSE users[id].token_balance[1]

InitialBalance(id) == IF balance0[id] = NULL THEN 0 ELSE balance0[id][1]

StoredUsage(sessionId) ==
    IF anonymousSessions[sessionId].exists /\ anonymousSessions[sessionId].tokens_used # NULL
    THEN anonymousSessions[sessionId].tokens_used[1] ELSE 0

RECURSIVE SignedSum(_)
SignedSum(rows) ==
    IF rows = <<>> THEN 0 ELSE SignedSum(Tail(rows)) - Head(rows).tokens_used

LedgerAgrees(id) ==
    StoredBalance(id) = InitialBalance(id) + SignedSum(getUserTokenUsage(id))

Returned(p, op) == proc[p].op = op /\ proc[p].pc = "done"

Returns(p, op) ==
    /\ proc[p].op = op /\ proc[p].pc \notin {"idle", "done"}
    /\ proc'[p].op = op /\ proc'[p].pc = "done"

(* C1, as claimed: whenever no call is in progress, every user, admin or not,  *)
(* whose balance only deductRegisteredUserTokens and addTokensToUser calls     *)
(* have written has a stored balance equal to its initial balance plus the     *)
(* signed sum of its ledger rows (each row contributing -tokens_used).         *)
C1_LedgerAnyUser ==
    AllIdle => \A id \in UserIds :
        (users[id].exists /\ id \notin resets) => LedgerAgrees(id)

(* C1, amended: the same for every user who is not on the admin allow-list,    *)
(* in any sequence of calls made one after the other.                          *)
C1_LedgerNonAdmin ==
    AllIdle => \A id \in UserIds :
        (users[id].exists /\ ~isAdmin(users[id])) => LedgerAgrees(id)

C1_Witness ==
    /\ AllIdle
    /\ ~isAdmin(users["u1"])
    /\ \E k, l \in DOMAIN tokenUsage :
          /\ tokenUsage[k].user_id = "u1" /\ tokenUsage[k].event_type = "purchase"
          /\ tokenUsage[l].user_id = "u1" /\ tokenUsage[l].event_type = "analysis"
    /\ StoredBalance("u1") # InitialBalance("u1")

(* C2, as claimed: a checkFreeUserLimits call on a session whose stored usage  *)
(* is at least 1000 returns canProceed = FALSE, whatever inputTokens and       *)
(* outputTokens are, 0 and 0 included.                                         *)
C2_CapReachedRefuses ==
    \A p \in Procs :
        (Returned(p, "checkFreeUserLimits") /\ StoredUsage(proc[p].id) >= 1000)
            => ~proc[p].res.canProceed

(* C3: checkFreeUserLimits returns canProceed = FALSE with a message exactly   *)
(* when in > 500, or out > 300, or stored usage + in + out > 1000, and TRUE    *)
(* otherwise; tokensUsed is the stored usage (0 for a session that does not    *)
(* exist).                                                                     *)
C3_FreeLimits ==
    \A p \in Procs :
        Returned(p, "checkFreeUserLimits") =>
            LET in == proc[p].a
                out == proc[p].b
                used == StoredUsage(proc[p].id)
                refuse == in > 500 \/ out > 300 \/ used + in + out > 1000
            IN  /\ proc[p].res.canProceed = ~refuse
                /\ refuse => proc[p].res.message # ""
                /\ proc[p].res.value = used

C3_Witness ==
    \E p \in Procs :
        /\ Returned(p, "checkFreeUserLimits")
        /\ StoredUsage(proc[p].id) = 950 /\ proc[p].a = 400 /\ proc[p].b = 100
        /\ ~proc[p].res.canProceed /\ proc[p].res.value = 950

(* C4: for an existing user who is not on the admin allow-list,                *)
(* checkRegisteredUserTokens returns canProceed = FALSE exactly when the       *)
(* stored balance (null as 0) is below the required amount, and currentBalance *)
(* is that stored balance.                                                     *)
C4_RegisteredCheck ==
    \A p \in Procs :
        (/\ Returned(p, "checkRegisteredUserTokens")
         /\ users[proc[p].id].exists
         /\ toLowerCase(users[proc[p].id].email) \notin adminUsernames)
            => /\ ~proc[p].res.canProceed <=> StoredBalance(proc[p].id) < proc[p].a
               /\ proc[p].res.value = StoredBalance(proc[p].id)

C4_Witness ==
    \E p \in Procs :
        /\ Returned(p, "checkRegisteredUserTokens") /\ proc[p].id = "u1"
        /\ StoredBalance("u1") = 2 /\ proc[p].a = 3 /\ ~proc[p].res.canProceed
        /\ tokenUsage # <<>>

AdminCheckReturns(p) ==
    /\ Returns(p, "checkRegisteredUserTokens")
    /\ users[proc[p].id].exists
    /\ toLowerCase(users[proc[p].id].email) \in adminUsernames

AdminPinned(p) ==
    /\ users'[proc[p].id].token_balance # NULL
    /\ users'[proc[p].id].token_balance[1] >= 999999999
    /\ proc'[p].res.canProceed
    /\ proc'[p].res.value = 999999999

(* C5, as claimed: in the state in which a checkRegisteredUserTokens call for  *)
(* an admin returns, the stored balance is at least 999999999 and the call     *)
(* returns canProceed = TRUE with currentBalance 999999999, whatever other     *)
(* accounting calls preceded or overlapped it.                                 *)
C5_AdminPinnedAlways ==
    [][\A p \in Procs : AdminCheckReturns(p) => AdminPinned(p)]_vars

(* C5, amended: the same, provided no addTokensToUser call for that user was   *)
(* in progress at any time during the check call.                              *)
C5_AdminPinnedNoOverlap ==
    [][\A p \in Procs : (AdminCheckReturns(p) /\ ~overlap'[p]) => AdminPinned(p)]_vars

C5_Witness ==
    \E p \in Procs :
        /\ Returned(p, "checkRegisteredUserTokens") /\ proc[p].id = "adm"
        /\ ~overlap[p]
        /\ InitialBalance("adm") < 999999999
        /\ StoredBalance("adm") >= 999999999
        /\ proc[p].res.canProceed
        /\ \E k \in DOMAIN tokenUsage : tokenUsage[k].user_id = "adm"

---------------------------------------------------------------------------
(* Claims about StripeService *)

(* This step is a call handleSuccessfulPayment(id) *)
HandlesSuccessfulPayment(id) ==
    /\ lastPay'.seq = payCalls + 1
    /\ lastPay'.op = "handleSuccessfulPayment"
    /\ lastPay'.id = id

(* id is an intent createPaymentIntent created, with its pending Payment row *)
CreatedPending(id) ==
    /\ \E k \in DOMAIN NewIntentIds : NewIntentIds[k] = id
    /\ intents[id].exists
    /\ payments[id].exists /\ payments[id].status = "pending"

(* The step moves the row of id from pending to succeeded and credits the row's *)
(* user exactly once with exactly the tokens requested at creation.            *)
RoundTrip(id) ==
    LET userId == payments[id].user_id
        tokens == payments[id].tokens_purchased
    IN  /\ payments'[id].status = "succeeded"
        /\ lastPay'.credits = 1
        /\ lastPay'.creditedTo = userId
        /\ lastPay'.creditedTokens = tokens
        /\ ToNumber(users'[userId].token_balance)
             = ToNumber(users[userId].token_balance) + tokens

C7_CreditsOnlyIfSucceeded ==
    [][\A id \in IntentIds :
          HandlesSuccessfulPayment(id) =>
            /\ (lastPay'.credits > 0 \/ lastPay'.marked = "succeeded")
                 => lastPay'.reported = "succeeded"
            /\ (lastPay'.retrieved /\
                  (\/ intents[id].status # "succeeded"
                   \/ intents[id].userId = ""
                   \/ parseInt(IF intents[id].tokens = <<>> THEN <<"0">>
                               ELSE intents[id].tokens)[1] <= 0))
                 => UNCHANGED <<users, tokenUsage, payments>>]_vars

C7_Witness ==
    /\ lastPay.op = "handleSuccessfulPayment" /\ lastPay.id = "pi_1"
    /\ lastPay.retrieved /\ lastPay.reported = "requires_payment_method"
    /\ intents["pi_1"].tokens = <<"2", "0", "0", "0">>
    /\ payments["pi_1"].status = "pending"
    /\ users["u1"].token_balance = <<0>>
    /\ tokenUsage = <<>>

(* C8: if any step of handleSuccessfulPayment(id) raises, the call does not    *)
(* propagate an exception to its caller and the Payment row of id ends with    *)
(* status 'failed'.                                                            *)
C8_RaiseMarksFailed ==
    [][\A id \in IntentIds :
          (HandlesSuccessfulPayment(id) /\ lastPay'.raised) =>
            /\ ~lastPay'.propagated
            /\ payments'[id].exists => payments'[id].status = "failed"]_vars

---------------------------------------------------------------------------
(* Claims about parseReportResponse *)

(* Field n of the report *)
Field(rep, n) ==
    CASE n = 1 -> rep.intelligence
      [] n = 2 -> rep.abstractThinking
      [] n = 3 -> rep.originality
      [] n = 4 -> rep.reasoningStyle
      [] n = 5 -> rep.ambiguityHandling
      [] n = 6 -> rep.metacognition
      [] n = 7 -> rep.thinkingType
      [] n = 8 -> rep.cognitiveComplexity
      [] n = 9 -> rep.thinkingQuality
      [] n = 10 -> rep.cognitiveArchetype

(* C9: for a response of exactly ten sections, headed "N.", "N:" or            *)
(* "Question N:" with N = 1..10 in order and with non-blank bodies, field N of *)
(* the returned report is the body of section N with the surrounding           *)
(* whitespace trimmed.                                                         *)
C9_TenSections ==
    \A d \in TenSectionInputs :
        (parsePc = "done" /\ content = TenSections(d))
        => \A n \in 1..10 : Field(report, n) = trim(SectionBody(d, n))

(* C10: when the parser is in a section later than K and a line matches the    *)
(* heading-keyword pattern of section K, the parser does not move to section   *)
(* K: the current section stays and the line's text is appended to its buffer. *)
C10_KeywordMonotone ==
    [][(parsePc = "loop" /\ i' = i + 1)
       => \A K \in 1..10 :
            (currentQuestion > K /\ test(K, trim(lines[i + 1])))
            => /\ currentQuestion' = currentQuestion
               /\ currentContent' = currentContent \o trim(lines[i + 1]) \o <<"\n">>]_vars

(* No line of the response is a section boundary: none matches the question    *)
(* number pattern or a heading pattern                                         *)
NoBoundary ==
    \A k \in DOMAIN lines :
        /\ ~questionMatch(trim(lines[k])).matched
        /\ \A q \in 0..10 : KeywordHeading(trim(lines[k]), q) = 0

(* C11: every one of the ten fields of the report is a non-empty string at any *)
(* time, so a section with a blank body never overwrites its field with an     *)
(* empty value; and for a response without any section boundary the returned   *)
(* report has all its defaults.                                                *)
C11_Defaults ==
    /\ \A n \in 1..10 : Field(report, n) # <<>>
    /\ (parsePc = "done" /\ NoBoundary) => report = DefaultReport

C11_Witness ==
    /\ parsePc = "done"
    /\ lines = <<<<"5", ".">>, <<>>, <<"3", ".", " ", "Original", " ", "insight">>>>
    /\ report.ambiguityHandling = DefaultReport.ambiguityHandling
    /\ report.originality = <<"Original", " ", "insight">>

---------------------------------------------------------------------------
(* Claims about the debits and credits of TokenService *)

(* The caller's call of op has returned, it was given an existing user, and    *)
(* that user is (admin = TRUE) or is not (admin = FALSE) on the allow-list     *)
ReturnedFor(p, op, admin) ==
    /\ Returned(p, op)
    /\ proc[p].user.exists
    /\ (toLowerCase(proc[p].user.email) \in adminUsernames) = admin

(* Exactly one row was appended to the ledger since the call was made *)
OneRowSince(p) == Len(tokenUsage) = proc[p].rows + 1

LastRow == tokenUsage[Len(tokenUsage)]

(* C12: deductRegisteredUserTokens on an admin leaves the stored balance as it *)
(* was and appends exactly one row, with tokens_used the amount rounded up and *)
(* tokens_remaining 999999999; after any sequence of deductions (no credit, no *)
(* reset by a check) an admin's balance is what it was before the sequence.    *)
C12_AdminNotDebited ==
    /\ \A p \in Procs :
          ReturnedFor(p, "deductRegisteredUserTokens", TRUE) =>
            /\ users[proc[p].id].token_balance = proc[p].user.token_balance
            /\ OneRowSince(p)
            /\ LastRow.user_id = proc[p].id
            /\ 2 * LastRow.tokens_used >= proc[p].a
            /\ 2 * (LastRow.tokens_used - 1) < proc[p].a
            /\ LastRow.tokens_remaining = 999999999
    /\ \A id \in UserIds :
          (/\ AllIdle /\ users[id].exists
           /\ toLowerCase(users[id].email) \in adminUsernames
           /\ id \notin resets
           /\ \A k \in DOMAIN tokenUsage :
                 tokenUsage[k].user_id = id => tokenUsage[k].event_type # "purchase")
          => users[id].token_balance = balance0[id]

C12_Witness ==
    /\ ReturnedFor("p1", "deductRegisteredUserTokens", TRUE)
    /\ proc["p1"].a = 1
    /\ users["adm"].token_balance = <<5>>
    /\ Len(getUserTokenUsage("adm")) = 3
    /\ LastRow.tokens_used = 1

(* tokens is the amount h/2 rounded up to a whole number *)
IsCeil(tokens, h) == 2 * tokens >= h /\ 2 * (tokens - 1) < h

(* C13: for a non-admin user deductRegisteredUserTokens(userId, t) stores the  *)
(* balance old - ceil(t) and appends exactly one row with tokens_used ceil(t)  *)
(* and tokens_remaining the balance just stored; deductFreeUserTokens stores   *)
(* the usage old + ceil(t) and appends one row with tokens_remaining 1000      *)
(* minus the usage just stored.                                                *)
C13_Debits ==
    \A p \in Procs :
        /\ ReturnedFor(p, "deductRegisteredUserTokens", FALSE) =>
             /\ OneRowSince(p)
             /\ LastRow.user_id = proc[p].id
             /\ IsCeil(LastRow.tokens_used, proc[p].a)
             /\ users[proc[p].id].token_balance # NULL
             /\ StoredBalance(proc[p].id)
                  = ToNumber(proc[p].user.token_balance) - LastRow.tokens_used
             /\ LastRow.tokens_remaining = StoredBalance(proc[p].id)
        /\ Returned(p, "deductFreeUserTokens") =>
             /\ OneRowSince(p)
             /\ LastRow.session_id = proc[p].id
             /\ IsCeil(LastRow.tokens_used, proc[p].a)
             /\ anonymousSessions[proc[p].id].exists
             /\ StoredUsage(proc[p].id)
                  = (IF proc[p].session.exists THEN ToNumber(proc[p].session.tokens_used)
                     ELSE 0) + LastRow.tokens_used
             /\ LastRow.tokens_remaining = 1000 - StoredUsage(proc[p].id)

C13_Witness ==
    /\ ReturnedFor("p1", "deductRegisteredUserTokens", FALSE)
    /\ proc["p1"].a = 1
    /\ balance0["u1"] = <<2>> /\ users["u1"].token_balance = <<1>>
    /\ \E k \in DOMAIN tokenUsage :
          /\ tokenUsage[k].session_id = "s2"
          /\ tokenUsage[k].tokens_used = 1 /\ tokenUsage[k].tokens_remaining = 999
    /\ anonymousSessions["s2"].tokens_used = <<1>>

(* C14: addTokensToUser(userId, n) on an existing user increases the stored    *)
(* balance by exactly n and appends exactly one row for that user, with event  *)
(* kind 'purchase', tokens_used = -n and tokens_remaining the new balance.     *)
C14_Credit ==
    \A p \in Procs :
        (Returned(p, "addTokensToUser") /\ proc[p].user.exists) =>
            /\ users[proc[p].id].token_balance # NULL
            /\ StoredBalance(proc[p].id) = ToNumber(proc[p].user.token_balance) + proc[p].a
            /\ OneRowSince(p)
            /\ LastRow.user_id = proc[p].id
            /\ LastRow.event_type = "purchase"
            /\ LastRow.tokens_used = -proc[p].a
            /\ LastRow.tokens_remaining = StoredBalance(proc[p].id)

C14_Witness ==
    /\ Returned("p1", "addTokensToUser") /\ proc["p1"].id = "u1"
    /\ balance0["u1"] = <<2>>
    /\ users["u1"].token_balance = <<4>>
    /\ Len(tokenUsage) = 2
    /\ LastRow.tokens_used = -3 /\ LastRow.tokens_remaining = 4

(* The caller's call has looked up a user (or session) that does not exist,    *)
(* and takes its next step                                                    *)
StepsOnMissing(p, ops) ==
    /\ proc[p].op \in ops /\ proc[p].pc = "read"
    /\ proc'[p] # proc[p]
    /\ IF proc[p].op = "checkFreeUserLimits"
       THEN ~anonymousSessions[proc[p].id].exists
       ELSE ~users[proc[p].id].exists

(* C15: deductRegisteredUserTokens and addTokensToUser on a user id that does  *)
(* not exist fail with 'User not found' and write no balance and no ledger     *)
(* row; the checks on a missing user or session return a decision and do not   *)
(* raise.                                                                      *)
C15_MissingUser ==
    [][\A p \in Procs :
         /\ StepsOnMissing(p, {"deductRegisteredUserTokens", "addTokensToUser"}) =>
              /\ proc'[p].pc = "done"
              /\ proc'[p].res.error = "User not found"
              /\ UNCHANGED <<users, tokenUsage, anonymousSessions>>
         /\ StepsOnMissing(p, {"checkRegisteredUserTokens"}) =>
              /\ proc'[p].pc = "done"
              /\ proc'[p].res.error = ""
              /\ ~proc'[p].res.canProceed /\ proc'[p].res.value = 0
              /\ proc'[p].res.message = "User not found"
              /\ UNCHANGED <<users, tokenUsage, anonymousSessions>>
         /\ StepsOnMissing(p, {"checkFreeUserLimits"}) =>
              /\ proc'[p].pc = "done"
              /\ proc'[p].res.error = ""
              /\ proc'[p].res.value = 0
              /\ proc'[p].res.canProceed
                   = (proc[p].a <= 500 /\ proc[p].b <= 300 /\ proc[p].a + proc[p].b <= 1000)
              /\ UNCHANGED <<users, tokenUsage, anonymousSessions>>]_vars

C15_Witness ==
    /\ Returned("p1", "deductRegisteredUserTokens") /\ proc["p1"].id = "ghost"
    /\ proc["p1"].res.error = "User not found"
    /\ Len(tokenUsage) = 2
    /\ \E k \in DOMAIN tokenUsage : tokenUsage[k].event_type = "purchase"

(* C16: a storage call made for user U leaves every row of another user as it  *)
(* was in all three tables, finds no row of another user (a get returns        *)
(* nothing, a delete returns false), and lists only rows whose user_id is U.   *)
OthersRows(table, userId) ==
    {id \in DOMAIN table : table[id].exists /\ table[id].user_id # userId}

IsolatedStep(userId) ==
    /\ \A id \in OthersRows(documents, userId) : documents'[id] = documents[id]
    /\ \A id \in OthersRows(analysisRequests, userId) :
          analysisRequests'[id] = analysisRequests[id]
    /\ \A id \in OthersRows(comprehensiveReports, userId) :
          comprehensiveReports'[id] = comprehensiveReports[id]
    /\ lastStorageCall'.found /\ lastStorageCall'.id # "" =>
          lastStorageCall'.id \notin
              OthersRows(documents, userId) \cup OthersRows(analysisRequests, userId)
                  \cup OthersRows(comprehensiveReports, userId)
    /\ lastStorageCall'.listed \cap
          (OthersRows(documents, userId) \cup OthersRows(analysisRequests, userId)
              \cup OthersRows(comprehensiveReports, userId)) = {}

C16_Isolation ==
    [][lastStorageCall' # lastStorageCall => IsolatedStep(lastStorageCall'.userId)]_vars

(* adm has just called delete, get or update on an existing row of u1: the    *)
(* row is still there and nothing was found.                                   *)
C16_Witness ==
    /\ lastStorageCall.userId = "adm"
    /\ ~lastStorageCall.found
    /\ \/ /\ lastStorageCall.op \in {"deleteDocument", "getDocument"}
          /\ lastStorageCall.id \in OwnedBy(documents, "u1")
       \/ /\ lastStorageCall.op = "updateAnalysisResult"
          /\ lastStorageCall.id \in OwnedBy(analysisRequests, "u1")
          /\ analysisRequests[lastStorageCall.id].result = NULL
    /\ getUserDocuments("u1") # {} /\ getUserDocuments("adm") # {}

(* C17: when authMiddleware has called next() without an error, exactly one of *)
(* req.user and req.sessionId is set: req.user if and only if the session's    *)
(* userId resolves to a user; in the anonymous case the session row exists.    *)
(* A step of authMiddleware changes no session row except to create the row of *)
(* req.sessionId, with tokens_used 0, where there was none.                    *)
AuthCompleted(p) ==
    proc[p].op = "authMiddleware" /\ proc[p].pc = "done" /\ proc[p].res.error = ""

Resolves(session) == session.userId # "" /\ users[session.userId].exists

AuthPost(p) ==
    LET req == proc[p].req IN
    /\ req.user.exists # (req.sessionId # "")
    /\ req.user.exists <=> Resolves(req.session)
    /\ req.user.exists => req.user.id = req.session.userId
    /\ req.sessionId # "" => anonymousSessions[req.sessionId].exists

AuthStepKeepsSessions(p) ==
    \A s \in SessionIds :
        anonymousSessions'[s] # anonymousSessions[s] =>
            /\ ~anonymousSessions[s].exists
            /\ s = proc[p].req.sessionId
            /\ anonymousSessions'[s] = [exists |-> TRUE, tokens_used |-> <<0>>]

C17_AuthMiddleware ==
    [][\A p \in Procs :
          /\ (AuthCompleted(p) => AuthPost(p))'
          /\ proc[p].op = "authMiddleware" /\ proc'[p] # proc[p] /\ ~Idle(p) =>
                AuthStepKeepsSessions(p)]_vars

(* A request whose session refers to no user has come through as anonymous     *)
(* with a row created for a generated id, while an existing row with usage     *)
(* stayed as it was.                                                           *)
C17_Witness ==
    \E p \in Procs :
        /\ AuthCompleted(p)
        /\ proc[p].req.session.userId = "ghost"
        /\ proc[p].req.sessionId = "s2"
        /\ ~proc[p].session.exists
        /\ anonymousSessions["s2"] = [exists |-> TRUE, tokens_used |-> <<0>>]
        /\ anonymousSessions["s1"].tokens_used = <<950>>

IsCeilOf(c, n, d) == d * c >= n /\ d * (c - 1) < n

(* max(ceil(w / 100) * 1, 100), as a set with that one element *)
BaseCosts(w) ==
    {IF c * 1 >= 100 THEN c * 1 ELSE 100 :
        c \in {c \in (w \div 100)..(w \div 100 + 1) : IsCeilOf(c, w, 100)}}

IsUploadCost(value, w) == BaseCosts(w) = {value}

CostOf(p, op) == IF Returned(p, op) THEN {proc[p].res.value} ELSE {}

C19_UploadCost ==
    \A p \in Procs : \A q \in Procs :
        LET w == proc[p].a IN
        /\ \A value \in CostOf(p, "calculateUploadCost") : IsUploadCost(value, w)
        /\ \A value \in CostOf(p, "calculateFreeUploadCost") :
              /\ BaseCosts(w) # {}
              /\ \A base \in BaseCosts(w) : value = IF base <= 1000 THEN base ELSE 1000
              /\ 100 <= value /\ value <= 1000
              /\ \A other \in CostOf(q, "calculateFreeUploadCost") :
                    proc[q].a <= w => other <= value
              /\ \A other \in CostOf(q, "calculateRegisteredUploadCost") :
                    proc[q].a = w => value <= other
        /\ \A value \in CostOf(p, "calculateRegisteredUploadCost") :
              /\ BaseCosts(w) # {}
              /\ \A base \in BaseCosts(w) : value = IF base <= 10000 THEN base ELSE 10000
              /\ 100 <= value /\ value <= 10000
              /\ \A other \in CostOf(q, "calculateRegisteredUploadCost") :
                    proc[q].a <= w => other <= value

(* 100001 words: 1001 hundreds, capped at 1000 for a free upload and charged   *)
(* in full for a registered one                                                *)
C19_Witness ==
    /\ Returned("p1", "calculateFreeUploadCost") /\ proc["p1"].a = 100001
    /\ proc["p1"].res.value = 1000
    /\ Returned("p2", "calculateRegisteredUploadCost") /\ proc["p2"].a = 100001
    /\ proc["p2"].res.value = 1001

(* C20: estimateTokens depends on the length of the text only and is the       *)
(* ceiling of the length over one fixed divisor: two texts of equal length     *)
(* get equal estimates, a longer text never gets a smaller one, and the empty  *)
(* text gets 0.                                                                *)
Estimated(p) == Returned(p, "estimateTokens")

C20_EstimateTokens ==
    /\ \E divisor \in 1..MaxTextLen :
          \A p \in Procs :
              Estimated(p) => IsCeilOf(proc[p].res.value, Len(proc[p].a), divisor)
    /\ \A p \in Procs : \A q \in Procs :
          Estimated(p) /\ Estimated(q) =>
              /\ Len(proc[p].a) = Len(proc[q].a) => proc[p].res.value = proc[q].res.value
              /\ Len(proc[p].a) <= Len(proc[q].a) => proc[p].res.value <= proc[q].res.value
    /\ \A p \in Procs : Estimated(p) /\ proc[p].a = <<>> => proc[p].res.value = 0

(* Two different texts of four characters are both estimated at 2 tokens *)
C20_Witness ==
    /\ Estimated("p1") /\ Estimated("p2")
    /\ proc["p1"].a = <<"a", "a", "a", "a">>
    /\ proc["p2"].a = <<"a", " ", " ", "a">>
    /\ proc["p1"].res.value = 2 /\ proc["p2"].res.value = 2

(* C21: when the key is missing, the call fails, the content is empty, the     *)
(* content is not JSON, or the JSON lacks a field or has one of the wrong type, *)
(* analyzeWithOpenAI and analyzeWithAnthropic throw and return nothing, while  *)
(* analyzeWithDeepSeek never throws and returns all five fields: the fallback  *)
(* result, with a score in 65..85, when the call or the parse failed.          *)
CallFailed(a) == ~a.key \/ ~a.response.ok

NotJson(a) == a.response.content \in {Prose, Reversed, Truncated, Fenced}

NoJsonInside(a) == a.response.content \in {Prose, Reversed, Truncated}

BadField(a) ==
    /\ a.response.content \in {Bare, Fenced}
    /\ \/ a.response.object.intelligenceScore.type # "number"
       \/ a.response.object.detailedAnalysis.type # "string"
       \/ \E f \in {"characteristics", "strengths", "tendencies"} :
             a.response.object[f].type # "array"

BadOutcome(a) ==
    CallFailed(a) \/ a.response.content = <<>> \/ NotJson(a) \/ BadField(a)

IsFallback(result) ==
    /\ result.intelligenceScore.type = "number"
    /\ result.intelligenceScore # NaN
    /\ result.intelligenceScore.num \in 65..85
    /\ result.characteristics = Arr("analytical")
    /\ result.detailedAnalysis \in {Str("solid"), Str("above-average")}
    /\ result.strengths = Arr("logical reasoning")
    /\ result.tendencies = Arr("methodical analysis")

C21_ShortForm ==
    /\ analysis.provider \in {"OpenAI", "Anthropic"} /\ BadOutcome(analysis) =>
          analysis.failed /\ analysis.error # "" /\ analysis.result = NoAnalysis
    /\ analysis.provider = "DeepSeek" =>
          /\ ~analysis.failed
          /\ \A f \in DOMAIN analysis.result : analysis.result[f].type # "undefined"
          /\ CallFailed(analysis) \/ analysis.response.content = <<>>
                 \/ NoJsonInside(analysis) => IsFallback(analysis.result)

(* DeepSeek, asked without a key about a long text, returns the fallback       *)
(* result with the highest score                                               *)
C21_Witness ==
    /\ analysis.provider = "DeepSeek" /\ ~analysis.key
    /\ analysis.text.wordCount = 501
    /\ analysis.result.intelligenceScore = Num(85)

(* C22: from one line to the next the current section of the parser never      *)
(* decreases; a numbered line whose number is below the current section is not *)
(* a boundary: the section stays and the line is appended to its buffer.       *)
C22_NoBackward ==
    [][(parsePc = "loop" /\ i' = i + 1)
       => LET line == trim(lines[i + 1])
              match == questionMatch(line) IN
          /\ currentQuestion' >= currentQuestion
          /\ (match.matched /\ parseInt(match.number)[1] < currentQuestion)
             => /\ currentQuestion' = currentQuestion
                /\ currentContent' = currentContent \o line \o <<"\n">>]_vars

(* C23: the current section of the parser is always in 0..10, and when the     *)
(* input has ended the buffer of the open section is the text of that          *)
(* section's field of the report.                                              *)
C23_SectionRange ==
    /\ currentQuestion \in 0..10
    /\ (parsePc = "done" /\ currentQuestion \in 1..10 /\ trim(currentContent) # <<>>)
       => Field(report, currentQuestion) = trim(currentContent)

(* C24: two requests of one user can both be allowed before either debit is    *)
(* stored; each debit writes the balance it read less its amount, so once both *)
(* debits have returned, with two ledger rows, the stored balance is the       *)
(* initial one less both amounts (possibly negative) or less only one of them. *)
Debited(p) == proc[p].op = "deductRegisteredUserTokens" /\ proc[p].pc = "done"

C24_BalanceRace ==
    (Debited("p1") /\ Debited("p2") /\ calls = 2) =>
        LET b0 == OrZero(balance0["u1"])
            d1 == MathCeil(proc["p1"].a)
            d2 == MathCeil(proc["p2"].a) IN
        /\ Len(tokenUsage) = 2
        /\ users["u1"].token_balance \in {<<b0 - d1 - d2>>, <<b0 - d1>>, <<b0 - d2>>}

(* Balance 3, two requests of 2 tokens: both debits read 3, two rows were      *)
(* appended and the stored balance is 1                                        *)
C24_Witness ==
    /\ Debited("p1") /\ Debited("p2")
    /\ balance0["u1"] = <<3>>
    /\ proc["p1"].a = 4 /\ proc["p2"].a = 4
    /\ proc["p1"].user.token_balance = <<3>> /\ proc["p2"].user.token_balance = <<3>>
    /\ Len(tokenUsage) = 2
    /\ users["u1"].token_balance = <<1>>

(* C25: when every deductFreeUserTokens(s, n) follows a checkFreeUserLimits    *)
(* that allowed in + out = n, one request at a time, the stored usage of a     *)
(* session never exceeds 1000 and never decreases.                             *)
C25_CappedUsage ==
    [][\A s \in SessionIds :
          /\ CurrentUsage(anonymousSessions'[s]) <= 1000
          /\ CurrentUsage(anonymousSessions'[s]) >= CurrentUsage(anonymousSessions[s])]_vars

(* Session s1, at 950, was allowed 30 + 20 tokens and now stands at 1000 *)
C25_Witness ==
    /\ proc["p1"].op = "deductFreeUserTokens" /\ proc["p1"].pc = "done"
    /\ proc["p1"].id = "s1" /\ proc["p1"].a = 100
    /\ proc["p1"].session.tokens_used = <<950>>
    /\ anonymousSessions["s1"].tokens_used = <<1000>>

(* C26: whatever handleSuccessfulPayment calls are made, the tokens credited   *)
(* to a user are at most the tokens purchased with that user's intents: an     *)
(* intent is credited at most once.                                            *)
PurchasedWith(id, userId) ==
    IF intents[id].exists /\ intents[id].userId = userId /\ intents[id].tokens # <<>>
    THEN parseInt(intents[id].tokens)[1]
    ELSE 0

C26_CreditedOnce ==
    OrZero(users["u1"].token_balance) - OrZero(balance0["u1"])
        <= PurchasedWith("pi_1", "u1") + PurchasedWith("pi_2", "u1")
               + PurchasedWith("pi_ext", "u1")

(* C27: a Payment row is 'succeeded' exactly when the tokens of its intent     *)
(* were credited: a call that credits the tokens leaves the row 'succeeded', a *)
(* call marks a row 'succeeded' only when it credits, and a 'succeeded' row    *)
(* keeps that status.                                                          *)
C27_StatusAgrees ==
    [][\A id \in IntentIds :
          /\ (HandlesSuccessfulPayment(id) /\ payments'[id].exists) =>
                (lastPay'.credits > 0 <=> lastPay'.marked = "succeeded")
          /\ (HandlesSuccessfulPayment(id) /\ payments'[id].exists /\ lastPay'.credits > 0) =>
                payments'[id].status = "succeeded"
          /\ (payments[id].exists /\ payments[id].status = "succeeded") =>
                payments'[id].status = "succeeded"]_vars

(* C28: in a sequential execution that starts from a non-negative balance and  *)
(* in which every deductRegisteredUserTokens(u, n) directly follows a          *)
(* checkRegisteredUserTokens(u, n) that returned canProceed = true, the stored *)
(* token_balance of the non-admin user is never negative.                      *)
C28_NeverNegative == OrZero(users["u1"].token_balance) >= 0

C28_Witness ==
    /\ Debited("p1")
    /\ proc["p1"].a > 0
    /\ balance0["u1"] = <<5>>
    /\ users["u1"].token_balance = <<0>>

(* C29: under any interleaving of authMiddleware and deductFreeUserTokens      *)
(* calls that carry the same unseen session id, createAnonymousSession is      *)
(* invoked at most once for that id: no call reaches the insert when the row   *)
(* of its session id exists, so no request fails on a duplicate insert.        *)
C29_CreatedOnce ==
    \A p \in Procs :
        proc[p].op \in {"authMiddleware", "deductFreeUserTokens"} =>
            proc[p].res.error # "duplicate key"

(* C30: MemStorage behaves like NeonStorage for the anonymous-session calls:   *)
(* getAnonymousSession returns the session that createAnonymousSession created *)
(* with the tokens_used that updateAnonymousSessionTokens last wrote, so       *)
(* checkFreeUserLimits decides the same under either store.                    *)
C30_MemLikeNeon == lastSessionCall.mem = lastSessionCall.neon

=============================================================================
